---- MODULE Spec2Model ----
(***************************************************************************)
(* A model of the gomad bridge: the function Registry (Register,           *)
(* Unregister, Call, CallWithMessage) and the Bridge coordinator           *)
(* (HandleMessage, handlePendingResponse, Init) of                         *)
(* internal/bridge, run by several goroutines at once.                     *)
(*                                                                         *)
(* Every step of an operation that reads or writes shared state under one  *)
(* lock acquisition is one action; what a goroutine computes on its own    *)
(* locals between two such steps is folded into the step before it.        *)
(***************************************************************************)
EXTENDS Integers, Sequences, FiniteSets, TLC

(***************************************************************************)
(* Bounds of the model.                                                    *)
(***************************************************************************)
\* How many operations the goroutines start in one behaviour.
MaxOps == 3

\* The goroutines that call into the Bridge and its Registry.
Threads == {"t1", "t2"}

\* The names under which functions are registered and called.
Names == {"f", "g"}

(***************************************************************************)
(* Wire constants (message.go).                                            *)
(***************************************************************************)
MessageTypeCall == "call"
MessageTypeResult == "result"
MessageTypeError == "error"
MessageTypeEvent == "event"

ErrCodeUnknown == -1
ErrCodeMethodNotFound == -2
ErrCodeInvalidArgs == -3
ErrCodeExecution == -4

(***************************************************************************)
(* Sentinel errors (internal/errors) and the errors of encoding/json, by   *)
(* name.  "nil" is the absent cause.                                       *)
(***************************************************************************)
ErrAlreadyExists == "already exists"
ErrNotFound == "not found"
ErrInvalidArgument == "invalid argument"

JSONSyntaxError == "json: syntax error"
JSONUnmarshalTypeError == "json: cannot unmarshal"

(***************************************************************************)
(* Values.  A raw JSON value as it stands in an argument slot, and a Go    *)
(* value, are records of one shape: a kind, a number and a string.         *)
(***************************************************************************)
Val(k, n, s) == [k |-> k, n |-> n, s |-> s]

\* raw JSON: an integral number, a fractional number, a string, null
JNum(n) == Val("num", n, "")
JFrac == Val("frac", 1, "1.5")
JStr(s) == Val("str", 0, s)
JNull == Val("null", 0, "")

\* Go values: int, string, a non-nil error with its text, untyped nil
GoInt(n) == Val("int", n, "")
GoString(s) == Val("string", 0, s)
GoError(text) == Val("error", 0, text)
\* an error that wraps a cause: fmt.Errorf("...: %w", cause)
GoErrorWrapping(text, cause) == [k |-> "error", n |-> 0, s |-> text, cause |-> cause]
GoNil == Val("nil", 0, "")

\* encoding/json's Marshal of a Go value that a bound function returned
\* A Go string that holds a byte which is no valid UTF-8 (0xFF), and the
\* string encoding/json writes for it: the byte replaced by U+FFFD.
InvalidUTF8 == "x<0xFF>"
Replaced == "x<U+FFFD>"

\* What json.Marshal makes of a Go string: invalid UTF-8 is coerced to the
\* replacement rune, every other string is read back as it was written.
ToValidUTF8(str) == IF str = InvalidUTF8 THEN Replaced ELSE str

\* a value json.Marshal has no encoding for
GoChan == Val("chan", 0, "")

\* a []interface{} of values
GoSlice(elems) == [k |-> "slice", n |-> 0, s |-> "", elems |-> elems]

\* json.Marshal(v) fails: json.UnsupportedTypeError
MarshalFails(v) == v.k = "chan"

Marshal(v) ==
  CASE v.k = "int" -> JNum(v.n)
    [] v.k = "string" -> JStr(ToValidUTF8(v.s))
    [] OTHER -> JNull

\* The zero value of a parameter type: what reflect.New(argType) points at.
Zero(type) == IF type = "int" THEN GoInt(0) ELSE GoString("")

\* json.Unmarshal(raw, argPtr) for one argument slot: null leaves the zero
\* value and is no error; a value of another shape is an UnmarshalTypeError.
Unmarshal(raw, type) ==
  CASE raw.k = "null" -> [err |-> "nil", v |-> Zero(type)]
    [] raw.k = "num" /\ type = "int" -> [err |-> "nil", v |-> GoInt(raw.n)]
    [] raw.k = "str" /\ type = "string" -> [err |-> "nil", v |-> GoString(raw.s)]
    [] OTHER -> [err |-> JSONUnmarshalTypeError, v |-> Zero(type)]

(***************************************************************************)
(* The raw argument text of a call (Message.Args, a json.RawMessage):      *)
(* absent (nil), the literal null, an array of raw values, or some other   *)
(* JSON value that is no array.                                            *)
(***************************************************************************)
RawArgs(k, elems) == [k |-> k, elems |-> elems]

ArgsAbsent == RawArgs("absent", <<>>)
ArgsNull == RawArgs("null", <<>>)
ArgsObject == RawArgs("object", <<>>)
ArgsArray(elems) == RawArgs("array", elems)

\* json.Marshal(args) for the args of NewCallMessage: nil is written as null,
\* a slice as an array of its marshalled values, a scalar as a JSON value
\* that is no array.
MarshalArgs(a) ==
  CASE a.k = "nil" -> ArgsNull
    [] a.k = "slice" ->
         ArgsArray([i \in 1..Len(a.elems) |-> Marshal(a.elems[i])])
    [] OTHER -> ArgsObject

\* json.Unmarshal(argsJSON, &rawArgs) into a []json.RawMessage, run only when
\* argsJSON is non-empty: null leaves the slice nil, an array fills it,
\* anything else is an error.
UnmarshalArgs(argsJSON) ==
  CASE argsJSON.k = "absent" -> [err |-> "nil", rawArgs |-> <<>>]
    [] argsJSON.k = "null" -> [err |-> "nil", rawArgs |-> <<>>]
    [] argsJSON.k = "array" -> [err |-> "nil", rawArgs |-> argsJSON.elems]
    [] OTHER -> [err |-> JSONUnmarshalTypeError, rawArgs |-> <<>>]

(***************************************************************************)
(* The values handed to Register.  The functions are those the demo and    *)
(* the documentation bind, plus one that faults; reflect reads the         *)
(* parameter types and the return shape off each.                          *)
(***************************************************************************)
\*   ping     func()
\*   greet    func(name string) string
\*   validate func(n int) error             n < 0 is an error
\*   safeDiv  func(a, b int) (int, error)   b = 0 is an error
\*   intDiv   func(a, b int) int            b = 0 panics (integer divide by zero)
\*   find     func(id int) (string, error)  id < 0 is an error that wraps
\*                                          ErrNotFound
\*   stream   func() chan int               a value json.Marshal rejects
Fns == {"ping", "greet", "validate", "safeDiv", "intDiv", "find", "stream"}

\* fnType.In(i) for i < fnType.NumIn()
FnIn(fn) ==
  CASE fn = "ping" -> <<>>
    [] fn = "greet" -> <<"string">>
    [] fn = "validate" -> <<"int">>
    [] fn = "safeDiv" -> <<"int", "int">>
    [] fn = "intDiv" -> <<"int", "int">>
    [] fn = "find" -> <<"int">>
    [] OTHER -> <<>>

\* fnType.Out(i) for i < fnType.NumOut()
FnOut(fn) ==
  CASE fn = "ping" -> <<>>
    [] fn = "greet" -> <<"string">>
    [] fn = "validate" -> <<"error">>
    [] fn = "safeDiv" -> <<"int", "error">>
    [] fn = "intDiv" -> <<"int">>
    [] fn = "find" -> <<"string", "error">>
    [] fn = "stream" -> <<"chan int">>
    [] fn = "threeOut" -> <<"int", "int", "error">>
    [] fn = "twoNoError" -> <<"int", "int">>
    [] OTHER -> <<>>

\* Values that are no registrable function: the nil interface, a value that
\* is no function, a function of three results, a function of two results
\* whose second is no error.
NotBindable == {"nilValue", "notAFunc", "threeOut", "twoNoError"}

IsNilValue(fn) == fn = "nilValue"
IsFunc(fn) == fn \in Fns \cup {"threeOut", "twoNoError"}

\* Go's integer division truncates toward zero.
GoQuo(a, b) ==
  IF (a < 0) = (b < 0) THEN (IF a < 0 THEN -a ELSE a) \div (IF b < 0 THEN -b ELSE b)
  ELSE -((IF a < 0 THEN -a ELSE a) \div (IF b < 0 THEN -b ELSE b))

\* bound.Fn.Call(args): what the function does on decoded arguments.  Either
\* it returns its results or it panics.
Returns(results) == [panic |-> FALSE, results |-> results]
Panics == [panic |-> TRUE, results |-> <<>>]

FnCall(fn, args) ==
  CASE fn = "ping" -> Returns(<<>>)
    [] fn = "greet" -> Returns(<<GoString("Hello, " \o args[1].s)>>)
    [] fn = "validate" ->
         Returns(<<IF args[1].n < 0 THEN GoError("negative") ELSE GoNil>>)
    [] fn = "safeDiv" ->
         IF args[2].n = 0
           THEN Returns(<<GoInt(0), GoError("division by zero")>>)
           ELSE Returns(<<GoInt(GoQuo(args[1].n, args[2].n)), GoNil>>)
    [] fn = "intDiv" ->
         IF args[2].n = 0
           THEN Panics
           ELSE Returns(<<GoInt(GoQuo(args[1].n, args[2].n))>>)
    [] fn = "find" ->
         IF args[1].n < 0
           THEN Returns(<<GoString(""),
                          GoErrorWrapping("no such user: not found", ErrNotFound)>>)
           ELSE Returns(<<GoString("Ada"), GoNil>>)
    [] fn = "stream" -> Returns(<<GoChan>>)
    [] OTHER -> Panics

(***************************************************************************)
(* Errors.  A BindingError carries the function name, a reason and a       *)
(* cause; errors.Is follows Unwrap, which yields the cause.  A plain error *)
(* is one a bound function made itself.                                    *)
(***************************************************************************)
NilError == [kind |-> "nil", FunctionName |-> "", Reason |-> "", Cause |-> "nil"]

NewBindingError(funcName, reason, cause) ==
  [kind |-> "BindingError", FunctionName |-> funcName, Reason |-> reason,
   Cause |-> cause]

PlainError(text) ==
  [kind |-> "plain", FunctionName |-> "", Reason |-> text, Cause |-> "nil"]

\* an error that wraps a cause with %w: its text holds the cause's text
WrappingError(text, cause) ==
  [kind |-> "wrapping", FunctionName |-> "", Reason |-> text, Cause |-> cause]

\* results[i].Interface().(error): the error a bound function returned
AsError(v) ==
  IF "cause" \in DOMAIN v THEN WrappingError(v.s, v.cause) ELSE PlainError(v.s)

\* errors.Is(err, target) for a sentinel target: the chain of Unwrap holds it
ErrorsIs(err, target) ==
  err.kind \in {"BindingError", "wrapping"} /\ err.Cause = target

\* err.Error()
ErrorString(err) ==
  CASE err.kind = "BindingError" /\ err.Cause # "nil" ->
         "binding '" \o err.FunctionName \o "' failed: " \o err.Reason
           \o ": " \o err.Cause
    [] err.kind = "BindingError" ->
         "binding '" \o err.FunctionName \o "' failed: " \o err.Reason
    [] OTHER -> err.Reason

(***************************************************************************)
(* BoundFunc: what Register stores for a function.                         *)
(***************************************************************************)
\* a BoundFunc that takes the second of two results for an error unchecked
BoundFuncSecondUnchecked(name, fn) ==
  [Name |-> name, Fn |-> fn, NumIn |-> Len(FnIn(fn)), NumOut |-> Len(FnOut(fn)),
   HasError |-> \/ Len(FnOut(fn)) = 2
                \/ Len(FnOut(fn)) > 0 /\ FnOut(fn)[Len(FnOut(fn))] = "error"]

BoundFunc(name, fn) ==
  [Name |-> name, Fn |-> fn, NumIn |-> Len(FnIn(fn)), NumOut |-> Len(FnOut(fn)),
   HasError |-> Len(FnOut(fn)) > 0 /\ FnOut(fn)[Len(FnOut(fn))] = "error"]

\* the zero *BoundFunc a goroutine holds before its lookup
NoBound ==
  [Name |-> "", Fn |-> "none", NumIn |-> 0, NumOut |-> 0, HasError |-> FALSE]

(***************************************************************************)
(* The wire Message (message.go) and its JSON text.                        *)
(***************************************************************************)
RawAbsent == Val("absent", 0, "")

\* a nil *ErrorPayload
NoPayload == [set |-> FALSE, Code |-> 0, Message |-> "", Details |-> ""]

ErrorPayload(code, message, details) ==
  [set |-> TRUE, Code |-> code, Message |-> message, Details |-> details]

\* the zero Message
ZeroMessage ==
  [ID |-> "", Type |-> "", Method |-> "", Args |-> ArgsAbsent,
   Result |-> RawAbsent, Error |-> NoPayload, Event |-> "", Data |-> RawAbsent,
   Timestamp |-> 0]

\* The readings of time.Now().UnixMilli() a message can be stamped with.
Clock == {1700}

\* The message of NewCallMessage when json.Marshal(args) succeeds.
NewCallMessage(id, method, a, now) ==
  [ZeroMessage EXCEPT !.ID = id, !.Type = MessageTypeCall, !.Method = method,
                      !.Args = MarshalArgs(a), !.Timestamp = now]

\* an event message that carries a correlation ID
NewEventMessageWithID(event, data, now) ==
  [ZeroMessage EXCEPT !.ID = "gomad_0", !.Type = MessageTypeEvent,
                      !.Event = event, !.Data = Marshal(data), !.Timestamp = now]

\* The message of NewEventMessage when json.Marshal(data) succeeds: no ID.
NewEventMessage(event, data, now) ==
  [ZeroMessage EXCEPT !.Type = MessageTypeEvent, !.Event = event,
                      !.Data = Marshal(data), !.Timestamp = now]

\* The message of NewResultMessage when json.Marshal(result) succeeds.
NewResultMessage(id, result, now) ==
  [ZeroMessage EXCEPT !.ID = id, !.Type = MessageTypeResult,
                      !.Result = Marshal(result), !.Timestamp = now]

\* an error message that loses the correlation ID
NewErrorMessageNoID(id, code, message, details, now) ==
  [ZeroMessage EXCEPT !.Type = MessageTypeError,
                      !.Error = ErrorPayload(code, message, details),
                      !.Timestamp = now]

NewErrorMessage(id, code, message, details, now) ==
  [ZeroMessage EXCEPT !.ID = id, !.Type = MessageTypeError,
                      !.Error = ErrorPayload(code, message, details),
                      !.Timestamp = now]

\* The keys of the JSON object a Message is written as.
Keys ==
  {"id", "type", "method", "args", "result", "error", "event", "data",
   "timestamp"}

\* A text: the empty string, text that is no JSON object, or a JSON object
\* with the keys it holds and their values.
EmptyText == [form |-> "empty", keys |-> {}, m |-> ZeroMessage]
Malformed == [form |-> "malformed", keys |-> {}, m |-> ZeroMessage]
Object(keys, m) == [form |-> "object", keys |-> keys, m |-> m]

\* The field values json.Marshal(m) writes: every string as valid UTF-8, the
\* raw fields (Args, Result, Data) byte for byte.
Written(m) ==
  [m EXCEPT !.ID = ToValidUTF8(m.ID), !.Method = ToValidUTF8(m.Method),
            !.Event = ToValidUTF8(m.Event),
            !.Error = [m.Error EXCEPT !.Message = ToValidUTF8(m.Error.Message),
                                      !.Details = ToValidUTF8(m.Error.Details)]]

\* json.Marshal(m) with the "id" key written also for an empty ID
ToJSONAlwaysID(m) ==
  Object({"type", "id"}
           \cup (IF m.Method # "" THEN {"method"} ELSE {})
           \cup (IF m.Args.k # "absent" THEN {"args"} ELSE {})
           \cup (IF m.Result.k # "absent" THEN {"result"} ELSE {})
           \cup (IF m.Error.set THEN {"error"} ELSE {})
           \cup (IF m.Event # "" THEN {"event"} ELSE {})
           \cup (IF m.Data.k # "absent" THEN {"data"} ELSE {})
           \cup (IF m.Timestamp # 0 THEN {"timestamp"} ELSE {}),
         Written(m))

\* json.Marshal(m): "type" is always written, every other key only when its
\* field is not empty (omitempty).
ToJSON(m) ==
  Object({"type"}
           \cup (IF m.ID # "" THEN {"id"} ELSE {})
           \cup (IF m.Method # "" THEN {"method"} ELSE {})
           \cup (IF m.Args.k # "absent" THEN {"args"} ELSE {})
           \cup (IF m.Result.k # "absent" THEN {"result"} ELSE {})
           \cup (IF m.Error.set THEN {"error"} ELSE {})
           \cup (IF m.Event # "" THEN {"event"} ELSE {})
           \cup (IF m.Data.k # "absent" THEN {"data"} ELSE {})
           \cup (IF m.Timestamp # 0 THEN {"timestamp"} ELSE {}),
         Written(m))

\* json.Unmarshal(data, &msg) that leaves a raw field nil on the literal null
FromJSONNullAsNil(data) ==
  IF data.form # "object"
    THEN [err |-> JSONSyntaxError, msg |-> ZeroMessage]
    ELSE [err |-> "nil",
          msg |->
            [ID |-> IF "id" \in data.keys THEN data.m.ID ELSE "",
             Type |-> IF "type" \in data.keys THEN data.m.Type ELSE "",
             Method |-> IF "method" \in data.keys THEN data.m.Method ELSE "",
             Args |-> IF "args" \in data.keys /\ data.m.Args.k # "null"
                       THEN data.m.Args ELSE ArgsAbsent,
             Result |-> IF "result" \in data.keys /\ data.m.Result.k # "null"
                         THEN data.m.Result ELSE RawAbsent,
             Error |-> IF "error" \in data.keys THEN data.m.Error ELSE NoPayload,
             Event |-> IF "event" \in data.keys THEN data.m.Event ELSE "",
             Data |-> IF "data" \in data.keys /\ data.m.Data.k # "null"
                       THEN data.m.Data ELSE RawAbsent,
             Timestamp |->
               IF "timestamp" \in data.keys THEN data.m.Timestamp ELSE 0]]

\* json.Unmarshal(data, &msg): a field is set from its key when the text
\* holds the key, and keeps its zero value otherwise.
FromJSON(data) ==
  IF data.form # "object"
    THEN [err |-> JSONSyntaxError, msg |-> ZeroMessage]
    ELSE [err |-> "nil",
          msg |->
            [ID |-> IF "id" \in data.keys THEN data.m.ID ELSE "",
             Type |-> IF "type" \in data.keys THEN data.m.Type ELSE "",
             Method |-> IF "method" \in data.keys THEN data.m.Method ELSE "",
             Args |-> IF "args" \in data.keys THEN data.m.Args ELSE ArgsAbsent,
             Result |-> IF "result" \in data.keys THEN data.m.Result ELSE RawAbsent,
             Error |-> IF "error" \in data.keys THEN data.m.Error ELSE NoPayload,
             Event |-> IF "event" \in data.keys THEN data.m.Event ELSE "",
             Data |-> IF "data" \in data.keys THEN data.m.Data ELSE RawAbsent,
             Timestamp |->
               IF "timestamp" \in data.keys THEN data.m.Timestamp ELSE 0]]

(***************************************************************************)
(* Registry.Call after the lookup: the part that works on the goroutine's  *)
(* own snapshot of the BoundFunc.                                          *)
(***************************************************************************)
\* what Call returns: (interface{}, error)
CallOut(result, err) == [result |-> result, err |-> err]

\* a loop over the parameter positions that goes on after a slot that does
\* not decode, and reports the last such slot
DecodeFromReportsLast(bound, rawArgs, i, args) ==
  LET bad == {j \in i..(bound.NumIn - 1) :
                Unmarshal(rawArgs[j + 1], FnIn(bound.Fn)[j + 1]).err # "nil"}
  IN IF bad = {}
       THEN [err |-> NilError,
             args |-> args \o [j \in 1..(bound.NumIn - i) |->
                                 Unmarshal(rawArgs[i + j], FnIn(bound.Fn)[i + j]).v]]
       ELSE LET last == CHOOSE j \in bad : \A k \in bad : k <= j
            IN [err |-> NewBindingError(bound.Name,
                          "failed to convert argument " \o ToString(last)
                            \o " to " \o FnIn(bound.Fn)[last + 1],
                          Unmarshal(rawArgs[last + 1], FnIn(bound.Fn)[last + 1]).err),
                args |-> args]

\* The loop over the parameter positions, from position i (0-based, as in
\* the code): the first slot that does not decode ends it.
RECURSIVE DecodeFrom(_, _, _, _)
DecodeFrom(bound, rawArgs, i, args) ==
  IF i >= bound.NumIn
    THEN [err |-> NilError, args |-> args]
    ELSE
      LET argType == FnIn(bound.Fn)[i + 1]
          d == Unmarshal(rawArgs[i + 1], argType)
      IN IF d.err # "nil"
           THEN [err |-> NewBindingError(bound.Name,
                           "failed to convert argument " \o ToString(i)
                             \o " to " \o argType,
                           d.err),
                 args |-> args]
           ELSE DecodeFrom(bound, rawArgs, i + 1, Append(args, d.v))

\* DecodeCall with the count check weakened to "too few": surplus arguments
\* pass and are ignored.
DecodeCallTooFewOnly(bound, argsJSON) ==
  LET u == UnmarshalArgs(argsJSON)
  IN CASE u.err # "nil" ->
            [err |-> NewBindingError(bound.Name, "failed to parse arguments", u.err),
             args |-> <<>>]
       [] Len(u.rawArgs) < bound.NumIn ->
            [err |-> NewBindingError(bound.Name, "too few arguments",
                                     ErrInvalidArgument),
             args |-> <<>>]
       [] OTHER -> DecodeFrom(bound, u.rawArgs, 0, <<>>)

\* Argument parsing, the count check and the per-slot decoding.
DecodeCall(bound, argsJSON) ==
  LET u == UnmarshalArgs(argsJSON)
  IN CASE u.err # "nil" ->
            [err |-> NewBindingError(bound.Name, "failed to parse arguments", u.err),
             args |-> <<>>]
       [] Len(u.rawArgs) # bound.NumIn ->
            [err |-> NewBindingError(bound.Name,
                       "expected " \o ToString(bound.NumIn) \o " arguments, got "
                         \o ToString(Len(u.rawArgs)),
                       ErrInvalidArgument),
             args |-> <<>>]
       [] OTHER -> DecodeFrom(bound, u.rawArgs, 0, <<>>)

\* processResults that keeps the first value of a pair when the second is a
\* non-nil error.
processResultsKeepValue(bound, results) ==
  CASE bound.NumOut = 0 -> CallOut(GoNil, NilError)
    [] bound.NumOut = 1 /\ bound.HasError ->
         IF results[1].k # "nil"
           THEN CallOut(GoNil, AsError(results[1]))
           ELSE CallOut(GoNil, NilError)
    [] bound.NumOut = 1 -> CallOut(results[1], NilError)
    [] OTHER ->
         IF results[2].k # "nil"
           THEN CallOut(results[1], AsError(results[2]))
           ELSE CallOut(results[1], NilError)

\* processResults: the results of the function, by return arity.
processResults(bound, results) ==
  CASE bound.NumOut = 0 -> CallOut(GoNil, NilError)
    [] bound.NumOut = 1 /\ bound.HasError ->
         IF results[1].k # "nil"
           THEN CallOut(GoNil, AsError(results[1]))
           ELSE CallOut(GoNil, NilError)
    [] bound.NumOut = 1 -> CallOut(results[1], NilError)
    [] bound.NumOut = 2 ->
         IF results[2].k # "nil"
           THEN CallOut(GoNil, AsError(results[2]))
           ELSE CallOut(results[1], NilError)
    [] OTHER -> CallOut(GoNil, PlainError("unexpected number of return values"))

\* err.Error() of the json.UnsupportedTypeError of json.Marshal
UnsupportedTypeError == "json: unsupported type: chan int"

\* a reply that takes the result message without looking at the error of
\* NewResultMessage
CallReplyUnchecked(msg, co, now) ==
  IF co.err.kind # "nil"
    THEN
      LET code ==
            IF ErrorsIs(co.err, ErrNotFound) THEN ErrCodeMethodNotFound
            ELSE IF ErrorsIs(co.err, ErrInvalidArgument) THEN ErrCodeInvalidArgs
            ELSE ErrCodeExecution
      IN NewErrorMessage(msg.ID, code, ErrorString(co.err), "", now)
    ELSE NewResultMessage(msg.ID, co.result, now)

\* CallWithMessage after Call has returned: the reply it builds.
CallReply(msg, co, now) ==
  CASE co.err.kind # "nil" ->
         LET code ==
               IF ErrorsIs(co.err, ErrNotFound) THEN ErrCodeMethodNotFound
               ELSE IF ErrorsIs(co.err, ErrInvalidArgument) THEN ErrCodeInvalidArgs
               ELSE ErrCodeExecution
         IN NewErrorMessage(msg.ID, code, ErrorString(co.err), "", now)
    [] MarshalFails(co.result) ->
         NewErrorMessage(msg.ID, ErrCodeExecution, "failed to serialize result",
                         UnsupportedTypeError, now)
    [] OTHER -> NewResultMessage(msg.ID, co.result, now)

(***************************************************************************)
(* State.                                                                  *)
(***************************************************************************)
VARIABLES
  funcs,        \* Registry.funcs: name -> BoundFunc, a map (its domain grows)
  mu,           \* Registry.mu: the goroutines that hold it in read mode
  initialized,  \* Bridge.initialized
  initMu,       \* Bridge.initMu: the goroutine that holds it, or "free"
  evalLog,      \* the scripts submitted to the Evaluator, with its answers
  msgIDCounter, \* Bridge.msgIDCounter
  pendingCalls, \* Bridge.pendingCalls: correlation ID -> channel, a map
  pendingMu,    \* Bridge.pendingMu: the goroutine that holds it, or "free"
  chans,        \* the channels made for pending calls: closed or open
  consumers,    \* the goroutine waiting on each channel, and what it received
  pc,           \* where each goroutine stands in its operation
  op,           \* the operation a goroutine runs, or ran last, with its inputs
  bound,        \* Call's local: the BoundFunc it looked up
  args,         \* Call's local: the decoded arguments
  calls,        \* how many times the operation has invoked a bound function
  out,          \* what Registry.Call returned in the operation
  ch,           \* handlePendingResponse's local: the channel it looked up
  ret,          \* what the operation returned to its caller
  nops,         \* operations started so far
  wire,         \* the Message last built by a constructor, and its round trip
  callIdCounter,   \* companion script: callIdCounter
  jsPendingCalls,  \* companion script: pendingCalls, call ID -> its promise
  promises,        \* the promises the web side's calls returned, in order
  posted,          \* the texts the companion script sent to the native side
  responded,       \* the IDs of the result and error messages delivered, in order
  eventListeners,  \* companion script: eventListeners, event -> callbacks
  invoked,         \* the callbacks invoked so far, each with the data it got
  windowRegistry,  \* windows: windowRegistry, the handles that have an entry
  windows,         \* the Window structs by handle: onClose and closed
  live,            \* the handles of the windows the system holds
  ui               \* the UI thread: where it stands in wndProc, or its end

vars ==
  <<funcs, mu, initialized, initMu, evalLog, msgIDCounter, pendingCalls, pendingMu,
    chans, consumers, pc, op, bound, args, calls, out, ch, ret, nops, wire,
    callIdCounter, jsPendingCalls, promises, posted, responded, eventListeners,
    invoked, windowRegistry, windows, live, ui>>

windowVars == <<windowRegistry, windows, live, ui>>
registryVars == <<funcs, mu>>
initVars == <<initialized, initMu, evalLog>>
pendingVars == <<msgIDCounter, pendingCalls, pendingMu, chans, consumers>>
callVars == <<bound, args, calls, out, ch>>
jsVars ==
  <<callIdCounter, jsPendingCalls, promises, posted, responded, eventListeners,
    invoked>>
nativeVars ==
  <<funcs, mu, initialized, initMu, evalLog, msgIDCounter, pendingCalls, pendingMu,
    chans, consumers, pc, op, bound, args, calls, out, ch, ret, wire>>

\* An operation and its inputs.
Op(kind, name, fn, text) == [kind |-> kind, name |-> name, fn |-> fn, text |-> text]
NoOp == Op("none", "", "none", EmptyText)

\* What an operation returned: an error (Register, Init), a bool
\* (Unregister), a text (HandleMessage), or a panic that left it.
Ret(kind, err, b, text) ==
  [kind |-> kind, err |-> err, b |-> b, text |-> text, names |-> <<>>]
NoRet == Ret("none", NilError, FALSE, EmptyText)
RetError(err) == Ret("error", err, FALSE, EmptyText)
RetBool(b) == Ret("bool", NilError, b, EmptyText)
RetText(text) == Ret("text", NilError, FALSE, text)
RetPanic == Ret("panic", NilError, FALSE, EmptyText)
\* a *Message handed back as it is: the object with every key
AsMessage(m) == Object(Keys, m)
RetMessage(m) == Ret("message", NilError, FALSE, AsMessage(m))
\* a string handed back: the one element of names
RetString(str) == [Ret("string", NilError, FALSE, EmptyText) EXCEPT !.names = <<str>>]
RetList(names) == [Ret("list", NilError, FALSE, EmptyText) EXCEPT !.names = names]

\* a nil channel
NoChan == ""

NoCallOut == [result |-> GoNil, err |-> NilError, done |-> FALSE]
Done(co) == [result |-> co.result, err |-> co.err, done |-> TRUE]

\* What a constructor's caller holds: nothing yet, the error of json.Marshal,
\* or the message with what FromJSON reads from its ToJSON text.
NoWire ==
  [m |-> ZeroMessage, made |-> "none",
   back |-> [err |-> "nil", msg |-> ZeroMessage]]
MarshalFailed ==
  [m |-> ZeroMessage, made |-> "error",
   back |-> [err |-> "nil", msg |-> ZeroMessage]]
RoundTrip(m) == [m |-> m, made |-> "message", back |-> FromJSON(ToJSON(m))]

Init ==
  /\ funcs = [n \in {} |-> NoBound]
  /\ mu = {}
  /\ initialized = FALSE
  /\ initMu = "free"
  /\ evalLog = <<>>
  /\ msgIDCounter = 0
  /\ pendingCalls = [i \in {} |-> ""]
  /\ pendingMu = "free"
  /\ chans = [c \in {} |-> FALSE]
  /\ consumers = [c \in {} |-> [waiting |-> FALSE, got |-> <<>>]]
  /\ pc = [t \in Threads |-> "idle"]
  /\ op = [t \in Threads |-> NoOp]
  /\ bound = [t \in Threads |-> NoBound]
  /\ args = [t \in Threads |-> <<>>]
  /\ calls = [t \in Threads |-> 0]
  /\ out = [t \in Threads |-> NoCallOut]
  /\ ch = [t \in Threads |-> NoChan]
  /\ ret = [t \in Threads |-> NoRet]
  /\ nops = 0
  /\ wire = NoWire
  /\ callIdCounter = 0
  /\ jsPendingCalls = [i \in {} |-> 0]
  /\ promises = <<>>
  /\ posted = <<>>
  /\ responded = <<>>
  /\ eventListeners = [e \in {} |-> <<>>]
  /\ invoked = <<>>
  /\ windowRegistry = {}
  /\ windows = [h \in {} |-> [onClose |-> "nil", closed |-> FALSE]]
  /\ live = {}
  /\ ui = [pc |-> "idle", hwnd |-> "", read |-> "nil", quit |-> FALSE,
           handled |-> <<>>]

\* A goroutine starts operation o: its locals are fresh.
Start(t, o) ==
  /\ pc[t] = "idle"
  /\ nops < MaxOps
  /\ nops' = nops + 1
  /\ op' = [op EXCEPT ![t] = o]

\* The operation of t returns r.
Return(t, r) ==
  /\ pc' = [pc EXCEPT ![t] = "idle"]
  /\ ret' = [ret EXCEPT ![t] = r]

\* The operation of t goes on at label l.
Goto(t, l) ==
  /\ pc' = [pc EXCEPT ![t] = l]
  /\ ret' = [ret EXCEPT ![t] = NoRet]

FreshCall(t) ==
  /\ bound' = [bound EXCEPT ![t] = NoBound]
  /\ args' = [args EXCEPT ![t] = <<>>]
  /\ calls' = [calls EXCEPT ![t] = 0]
  /\ out' = [out EXCEPT ![t] = NoCallOut]
  /\ ch' = [ch EXCEPT ![t] = NoChan]

(***************************************************************************)
(* Registry.Register                                                       *)
(***************************************************************************)
\* r.mu.RLock(): t joins the readers.  No goroutine keeps the lock in write
\* mode from one step to the next, so a reader never waits.
RLock(readers, t) == readers \cup {t}

\* r.mu.RUnlock(): t leaves the readers.
RUnlock(readers, t) == readers \ {t}

\* r.mu.Lock() goes through when no goroutine holds the lock in read mode;
\* the matching r.mu.Unlock() runs in the same step.
WLockFree == mu = {}

\* a duplicate check that never finds the name
RegisteredNever(name) == FALSE

\* Register's duplicate check, under the read lock: _, exists := r.funcs[name]
Registered(name) == name \in DOMAIN funcs

\* The validations and the duplicate check, which reads the map under the
\* read lock and releases it.
RegisterCheck(t, name, fn) ==
  /\ UNCHANGED <<wire, jsVars, windowVars>>
  /\ Start(t, Op("Register", name, fn, EmptyText))
  /\ FreshCall(t)
  /\ UNCHANGED <<funcs, initVars, pendingVars>>
  /\ mu' = IF name # "" /\ IsFunc(fn) THEN RUnlock(RLock(mu, t), t) ELSE mu
  /\ CASE name = "" ->
            Return(t, RetError(NewBindingError(name, "name cannot be empty", "nil")))
       [] IsNilValue(fn) ->
            Return(t, RetError(NewBindingError(name, "function cannot be nil", "nil")))
       [] ~IsFunc(fn) ->
            Return(t, RetError(NewBindingError(name, "not a function", "nil")))
       [] Registered(name) ->
            Return(t, RetError(NewBindingError(name, "already registered",
                                               ErrAlreadyExists)))
       [] OTHER -> Goto(t, "store")

\* a store that comes before the analysis of the return shape
RegisterStoreUnvalidated(t) ==
  /\ UNCHANGED <<wire, jsVars, windowVars>>
  /\ pc[t] = "store"
  /\ WLockFree
  /\ LET name == op[t].name
         fn == op[t].fn
         b == BoundFunc(name, fn)
     IN /\ funcs' = [n \in DOMAIN funcs \cup {name} |->
                       IF n = name THEN b ELSE funcs[n]]
        /\ CASE b.NumOut > 2 ->
                  Return(t, RetError(NewBindingError(name,
                                "too many return values (max 2)", "nil")))
             [] b.NumOut = 2 /\ ~b.HasError ->
                  Return(t, RetError(NewBindingError(name,
                                "second return value must be error", "nil")))
             [] OTHER -> Return(t, RetError(NilError))
  /\ UNCHANGED <<mu, initVars, pendingVars, op, callVars, nops>>

\* The analysis of the return shape, then the store under the write lock.
RegisterStore(t) ==
  /\ UNCHANGED <<wire, jsVars, windowVars>>
  /\ pc[t] = "store"
  /\ LET name == op[t].name
         fn == op[t].fn
         b == BoundFunc(name, fn)
     IN CASE b.NumOut > 2 ->
               /\ Return(t, RetError(NewBindingError(name,
                                "too many return values (max 2)", "nil")))
               /\ UNCHANGED funcs
          [] b.NumOut = 2 /\ ~b.HasError ->
               /\ Return(t, RetError(NewBindingError(name,
                                "second return value must be error", "nil")))
               /\ UNCHANGED funcs
          [] OTHER ->
               /\ WLockFree
               /\ funcs' = [n \in DOMAIN funcs \cup {name} |->
                              IF n = name THEN b ELSE funcs[n]]
               /\ Return(t, RetError(NilError))
  /\ UNCHANGED <<mu, initVars, pendingVars, op, callVars, nops>>

(***************************************************************************)
(* Registry.Unregister: one critical section under the write lock.         *)
(***************************************************************************)
\* Unregister that reports the entry and leaves it in the map
UnregisterKeeps(t, name) ==
  /\ UNCHANGED <<wire, jsVars, windowVars>>
  /\ Start(t, Op("Unregister", name, "none", EmptyText))
  /\ FreshCall(t)
  /\ Return(t, RetBool(name \in DOMAIN funcs))
  /\ UNCHANGED <<registryVars, initVars, pendingVars>>

Unregister(t, name) ==
  /\ UNCHANGED <<wire, jsVars, windowVars>>
  /\ Start(t, Op("Unregister", name, "none", EmptyText))
  /\ FreshCall(t)
  /\ WLockFree
  /\ LET exists == name \in DOMAIN funcs
     IN /\ funcs' = IF exists
                      THEN [n \in DOMAIN funcs \ {name} |-> funcs[n]]
                      ELSE funcs
        /\ Return(t, RetBool(exists))
  /\ UNCHANGED <<mu, initVars, pendingVars>>

(***************************************************************************)
(* Registry.Has and Registry.List: each one critical section under the     *)
(* read lock.                                                              *)
(***************************************************************************)
\* Has that reports every name as registered
HasAlways(t, name) ==
  /\ UNCHANGED <<wire, jsVars, windowVars>>
  /\ Start(t, Op("Has", name, "none", EmptyText))
  /\ FreshCall(t)
  /\ Return(t, RetBool(TRUE))
  /\ UNCHANGED <<registryVars, initVars, pendingVars>>

Has(t, name) ==
  /\ UNCHANGED <<wire, jsVars, windowVars>>
  /\ Start(t, Op("Has", name, "none", EmptyText))
  /\ FreshCall(t)
  /\ mu' = RUnlock(RLock(mu, t), t)
  /\ Return(t, RetBool(name \in DOMAIN funcs))
  /\ UNCHANGED <<funcs, initVars, pendingVars>>

\* the orders in which a range over the map can yield its keys
Orders(S) ==
  {s \in [1..Cardinality(S) -> S] :
     \A i, j \in 1..Cardinality(S) : i # j => s[i] # s[j]}

List(t) ==
  /\ UNCHANGED <<wire, jsVars, windowVars>>
  /\ Start(t, Op("List", "", "none", EmptyText))
  /\ FreshCall(t)
  /\ mu' = RUnlock(RLock(mu, t), t)
  /\ \E names \in Orders(DOMAIN funcs) : Return(t, RetList(names))
  /\ UNCHANGED <<funcs, initVars, pendingVars>>

(***************************************************************************)
(* Bridge.HandleMessage, with Registry.CallWithMessage and Registry.Call   *)
(***************************************************************************)
\* the read lock kept after the lookup, its release put off to Call's return
CallLockDeferred(t) == RLock(mu, t)

\* The readers of r.mu once Call's lookup is done: r.mu.RLock(), the lookup,
\* r.mu.RUnlock().
CallLock(t) == RUnlock(RLock(mu, t), t)

\* Call's lookup under the read lock: bound, exists := r.funcs[name]
Lookup(name) ==
  IF name \in DOMAIN funcs
    THEN [bound |-> funcs[name], exists |-> TRUE]
    ELSE [bound |-> NoBound, exists |-> FALSE]

\* b.pendingMu can be taken when no goroutine holds it.
PendingMuFree == pendingMu = "free"

\* a lookup that finds an entry under every ID
PendingLookupAlways(id) ==
  [ch |-> IF id \in DOMAIN pendingCalls THEN pendingCalls[id] ELSE NoChan,
   exists |-> TRUE]

\* handlePendingResponse's lookup under the read lock:
\* ch, exists := b.pendingCalls[msg.ID]
PendingLookup(id) ==
  IF id \in DOMAIN pendingCalls
    THEN [ch |-> pendingCalls[id], exists |-> TRUE]
    ELSE [ch |-> NoChan, exists |-> FALSE]

\* a type check that lets every message through
NotCallMessageNever(msg) == FALSE

\* msg.Type != MessageTypeCall
NotCallMessage(msg) == msg.Type # MessageTypeCall

\* Where an operation stands after its first step, with what it returns (when
\* it has returned) and the locals of Call and handlePendingResponse; locks
\* tells that the step takes b.pendingMu.
Entered(label, r, b, a, o, c, locks) ==
  [pc |-> label, ret |-> r, bound |-> b, args |-> a, out |-> o, ch |-> c,
   locks |-> locks]

\* the text HandleMessage returns for a reply
ReplyText(m) == RetText(ToJSON(m))

\* a reply as CallWithMessage returns it ("message") or as HandleMessage
\* returns it (its text)
ReplyAs(as, m) == IF as = "message" THEN RetMessage(m) ELSE ReplyText(m)

\* CallWithMessage up to the point where the bound function is entered: the
\* type check, the lookup under the read lock, the argument decoding and the
\* count check.  The caller takes the reply as a message or as its text.
CallWithMessageEnter(msg, now, as) ==
  CASE NotCallMessage(msg) ->
         Entered("idle",
                 ReplyAs(as, NewErrorMessage(msg.ID, ErrCodeUnknown,
                                       "expected call message", "", now)),
                 NoBound, <<>>, NoCallOut, NoChan, FALSE)
    [] ~Lookup(msg.Method).exists ->
         LET co == CallOut(GoNil, NewBindingError(msg.Method, "not found",
                                                  ErrNotFound))
         IN Entered("idle", ReplyAs(as, CallReply(msg, co, now)),
                    NoBound, <<>>, Done(co), NoChan, FALSE)
    [] OTHER ->
         LET b == Lookup(msg.Method).bound
             d == DecodeCall(b, msg.Args)
         IN IF d.err.kind # "nil"
              THEN Entered("idle",
                           ReplyAs(as, CallReply(msg, CallOut(GoNil, d.err), now)),
                           b, <<>>, Done(CallOut(GoNil, d.err)), NoChan, FALSE)
              ELSE Entered("invoke", NoRet, b, d.args, NoCallOut, NoChan, FALSE)

\* a dispatch that drops a message without timestamp as undecodable
DispatchNeedsTimestamp(msgJSON, now) ==
  LET p == FromJSON(msgJSON)
      msg == p.msg
  IN CASE p.err # "nil" \/ msg.Timestamp = 0 ->
            Entered("idle",
                    ReplyText(NewErrorMessage("", ErrCodeUnknown,
                                              "failed to parse message", p.err, now)),
                    NoBound, <<>>, NoCallOut, NoChan, FALSE)
       [] msg.Type = MessageTypeCall -> CallWithMessageEnter(msg, now, "text")
       [] msg.Type \in {MessageTypeResult, MessageTypeError} ->
            IF msg.ID # "" /\ PendingLookup(msg.ID).exists
              THEN Entered("send", NoRet, NoBound, <<>>, NoCallOut,
                           PendingLookup(msg.ID).ch, TRUE)
              ELSE Entered("idle", RetText(EmptyText), NoBound, <<>>, NoCallOut,
                           NoChan, msg.ID # "")
       [] OTHER ->
            Entered("idle",
                    ReplyText(NewErrorMessage(msg.ID, ErrCodeUnknown,
                                "unknown message type: " \o msg.Type, "", now)),
                    NoBound, <<>>, NoCallOut, NoChan, FALSE)

\* HandleMessage up to the point where the bound function is entered or the
\* pending channel is found: the decoding of the text and the dispatch on
\* the type; for a response, handlePendingResponse to its lookup under the
\* read lock.
Dispatch(msgJSON, now) ==
  LET p == FromJSON(msgJSON)
      msg == p.msg
  IN CASE p.err # "nil" ->
            Entered("idle",
                    ReplyText(NewErrorMessage("", ErrCodeUnknown,
                                              "failed to parse message", p.err, now)),
                    NoBound, <<>>, NoCallOut, NoChan, FALSE)
       [] msg.Type = MessageTypeCall -> CallWithMessageEnter(msg, now, "text")
       [] msg.Type \in {MessageTypeResult, MessageTypeError} ->
            IF msg.ID # "" /\ PendingLookup(msg.ID).exists
              THEN Entered("send", NoRet, NoBound, <<>>, NoCallOut,
                           PendingLookup(msg.ID).ch, TRUE)
              ELSE Entered("idle", RetText(EmptyText), NoBound, <<>>, NoCallOut,
                           NoChan, msg.ID # "")
       [] OTHER ->
            Entered("idle",
                    ReplyText(NewErrorMessage(msg.ID, ErrCodeUnknown,
                                "unknown message type: " \o msg.Type, "", now)),
                    NoBound, <<>>, NoCallOut, NoChan, FALSE)

\* The first step of an operation of t that has come to e.
Enter(t, e) ==
  /\ e.locks => PendingMuFree
  /\ pc' = [pc EXCEPT ![t] = e.pc]
  /\ ret' = [ret EXCEPT ![t] = e.ret]
  /\ bound' = [bound EXCEPT ![t] = e.bound]
  /\ args' = [args EXCEPT ![t] = e.args]
  /\ calls' = [calls EXCEPT ![t] = 0]
  /\ out' = [out EXCEPT ![t] = e.out]
  /\ ch' = [ch EXCEPT ![t] = e.ch]

HandleMessage(t, msgJSON, now) ==
  /\ UNCHANGED <<wire, jsVars, windowVars>>
  /\ Start(t, Op("HandleMessage", "", "none", msgJSON))
  /\ UNCHANGED <<funcs, initVars, pendingVars>>
  /\ mu' = IF FromJSON(msgJSON).err = "nil"
                /\ FromJSON(msgJSON).msg.Type = MessageTypeCall
              THEN CallLock(t)
              ELSE mu
  /\ Enter(t, Dispatch(msgJSON, now))

\* Registry.CallWithMessage(msg), called on the registry of the bridge, up to
\* the point where the bound function is entered.
CallWithMessage(t, msg, now) ==
  /\ UNCHANGED <<wire, jsVars, windowVars>>
  /\ Start(t, Op("CallWithMessage", "", "none", AsMessage(msg)))
  /\ UNCHANGED <<funcs, initVars, pendingVars>>
  /\ mu' = IF NotCallMessage(msg) THEN mu ELSE CallLock(t)
  /\ Enter(t, CallWithMessageEnter(msg, now, "message"))

\* what the operation of t returns for the reply m
Respond(t, m) ==
  IF op[t].kind = "CallWithMessage" THEN RetMessage(m) ELSE ReplyText(m)

\* an invocation that looks the name up again in the registry when it runs
InvokeRelookup(t, now) ==
  /\ UNCHANGED <<wire, jsVars, windowVars>>
  /\ pc[t] = "invoke"
  /\ LET msg == FromJSON(op[t].text).msg
         b == Lookup(msg.Method).bound
         r == FnCall(b.Fn, args[t])
     IN /\ calls' = [calls EXCEPT ![t] = @ + 1]
        /\ IF r.panic
             THEN /\ out' = out
                  /\ Return(t, RetPanic)
             ELSE LET co == processResults(b, r.results)
                  IN /\ out' = [out EXCEPT ![t] = Done(co)]
                     /\ Return(t, Respond(t, CallReply(msg, co, now)))
  /\ UNCHANGED <<registryVars, initVars, pendingVars, op, bound, args, ch, nops>>

\* bound.Fn.Call(args) runs, with no lock held, and returns or panics; then
\* processResults, the reply of CallWithMessage and its text.
Invoke(t, now) ==
  /\ UNCHANGED <<wire, jsVars, windowVars>>
  /\ pc[t] = "invoke"
  /\ LET msg == FromJSON(op[t].text).msg
         r == FnCall(bound[t].Fn, args[t])
     IN /\ calls' = [calls EXCEPT ![t] = @ + 1]
        /\ IF r.panic
             THEN /\ out' = out
                  /\ Return(t, RetPanic)
             ELSE LET co == processResults(bound[t], r.results)
                  IN /\ out' = [out EXCEPT ![t] = Done(co)]
                     /\ Return(t, Respond(t, CallReply(msg, co, now)))
  /\ UNCHANGED <<registryVars, initVars, pendingVars, op, bound, args, ch, nops>>

(***************************************************************************)
(* Bridge.handlePendingResponse after its lookup                           *)
(***************************************************************************)
\* ch <- msg on the unbuffered channel: it panics when the channel is
\* closed, goes through when the consumer stands at its receive, and blocks
\* otherwise (on a nil channel, forever).
PendingSend(t) ==
  /\ UNCHANGED <<wire, jsVars, windowVars>>
  /\ pc[t] = "send"
  /\ ch[t] # NoChan
  /\ LET c == ch[t]
         msg == FromJSON(op[t].text).msg
     IN IF chans[c]
          THEN /\ Return(t, RetPanic)
               /\ UNCHANGED consumers
          ELSE /\ consumers[c].waiting
               /\ consumers' = [consumers EXCEPT
                                  ![c] = [waiting |-> FALSE,
                                          got |-> Append(@.got, msg)]]
               /\ Goto(t, "close")
  /\ UNCHANGED <<registryVars, initVars, msgIDCounter, pendingCalls, pendingMu,
                 chans, op, callVars, nops>>

\* the channel is closed and the entry stays in the table
PendingCloseKeepsEntry(t) ==
  /\ UNCHANGED <<wire, jsVars, windowVars>>
  /\ pc[t] = "close"
  /\ PendingMuFree
  /\ ~chans[ch[t]]
  /\ chans' = [chans EXCEPT ![ch[t]] = TRUE]
  /\ Return(t, RetText(EmptyText))
  /\ UNCHANGED <<registryVars, initVars, msgIDCounter, pendingCalls, pendingMu,
                 consumers, op, callVars, nops>>

\* Under the write lock: delete(b.pendingCalls, msg.ID); close(ch).  Closing
\* a closed channel panics, and the lock stays held.
PendingClose(t) ==
  /\ UNCHANGED <<wire, jsVars, windowVars>>
  /\ pc[t] = "close"
  /\ PendingMuFree
  /\ LET c == ch[t]
         id == FromJSON(op[t].text).msg.ID
     IN /\ pendingCalls' = [i \in DOMAIN pendingCalls \ {id} |-> pendingCalls[i]]
        /\ IF chans[c]
             THEN /\ pendingMu' = t
                  /\ UNCHANGED chans
                  /\ Return(t, RetPanic)
             ELSE /\ chans' = [chans EXCEPT ![c] = TRUE]
                  /\ UNCHANGED pendingMu
                  /\ Return(t, RetText(EmptyText))
  /\ UNCHANGED <<registryVars, initVars, msgIDCounter, consumers, op, callVars,
                 nops>>

\* generateMsgID
generateMsgID(counter) == "gomad_" \o ToString(counter)

\* A native-originated call is issued: a fresh correlation ID, a channel for
\* it entered in the table under the write lock, and the issuing goroutine
\* waiting on the channel for the one response.
\* a load of the counter in place of the add
LoadUint64(addr, delta) == addr

\* atomic.AddUint64(addr, delta): the new value.  The counter is 64 bits wide
\* and stays below MaxOps here, far from wrapping round.
AtomicAddUint64(addr, delta) == addr + delta

\* Bridge.generateMsgID(): the add is one indivisible step, and the text is
\* made from the value the add returned.
GenerateMsgID(t) ==
  /\ UNCHANGED <<wire, jsVars, windowVars>>
  /\ Start(t, Op("generateMsgID", "", "none", EmptyText))
  /\ msgIDCounter' = AtomicAddUint64(msgIDCounter, 1)
  /\ FreshCall(t)
  /\ Return(t, RetString(generateMsgID(msgIDCounter')))
  /\ UNCHANGED <<registryVars, initVars, pendingCalls, pendingMu, chans, consumers>>

IssueCall ==
  /\ UNCHANGED <<wire, jsVars, windowVars>>
  /\ nops < MaxOps
  /\ nops' = nops + 1
  /\ PendingMuFree
  /\ LET id == generateMsgID(msgIDCounter + 1)
     IN /\ msgIDCounter' = msgIDCounter + 1
        /\ pendingCalls' = [i \in DOMAIN pendingCalls \cup {id} |->
                              IF i = id THEN id ELSE pendingCalls[i]]
        /\ chans' = [c \in DOMAIN chans \cup {id} |->
                       IF c = id THEN FALSE ELSE chans[c]]
        /\ consumers' = [c \in DOMAIN consumers \cup {id} |->
                           IF c = id THEN [waiting |-> TRUE, got |-> <<>>]
                           ELSE consumers[c]]
  /\ UNCHANGED <<registryVars, initVars, pendingMu, pc, op, callVars, ret>>

(***************************************************************************)
(* Bridge.Init                                                             *)
(***************************************************************************)
\* The script Init submits.
JSBridgeCode == "JSBridgeCode"

\* a mutex that excludes nobody
InitMuAlwaysFree == TRUE

\* b.initMu.Lock() goes through when no goroutine holds the mutex.
InitMuFree == initMu = "free"

\* an Init that takes the registry's read lock too and keeps it
InitLockUnderRegistryLock(t) ==
  /\ UNCHANGED <<wire, jsVars, windowVars>>
  /\ Start(t, Op("Init", "", "none", EmptyText))
  /\ InitMuFree
  /\ initMu' = t
  /\ mu' = RLock(mu, t)
  /\ FreshCall(t)
  /\ Goto(t, "init")
  /\ UNCHANGED <<funcs, pendingVars, initialized, evalLog>>

\* b.initMu.Lock(), kept until Init returns
InitLock(t) ==
  /\ UNCHANGED <<wire, jsVars, windowVars>>
  /\ Start(t, Op("Init", "", "none", EmptyText))
  /\ InitMuFree
  /\ initMu' = t
  /\ FreshCall(t)
  /\ Goto(t, "init")
  /\ UNCHANGED <<registryVars, pendingVars, initialized, evalLog>>

\* the deferred b.initMu.Unlock()
InitUnlock(t) == initMu' = IF initMu = t THEN "free" ELSE initMu

\* Under the mutex: if b.initialized { return nil }
InitCheck(t) ==
  /\ UNCHANGED <<wire, jsVars, windowVars>>
  /\ pc[t] = "init"
  /\ IF initialized
       THEN /\ InitUnlock(t)
            /\ Return(t, RetError(NilError))
       ELSE /\ UNCHANGED initMu
            /\ Goto(t, "eval")
  /\ UNCHANGED <<registryVars, pendingVars, initialized, evalLog, op, callVars, nops>>

\* Still under the mutex: the submission of the script to the Evaluator,
\* which accepts it or fails, and the flag set when it accepted.
InitEval(t) ==
  /\ UNCHANGED <<wire, jsVars, windowVars>>
  /\ pc[t] = "eval"
  /\ InitUnlock(t)
  /\ \E accepted \in BOOLEAN :
       /\ evalLog' = Append(evalLog, [js |-> JSBridgeCode, ok |-> accepted])
       /\ IF accepted
            THEN /\ initialized' = TRUE
                 /\ Return(t, RetError(NilError))
            ELSE /\ UNCHANGED initialized
                 /\ Return(t, RetError(PlainError("failed to inject bridge code")))
  /\ UNCHANGED <<registryVars, pendingVars, op, callVars, nops>>

\* an IsInitialized that reports whether the script was ever submitted
IsInitializedAfterSubmission(t) ==
  /\ UNCHANGED <<wire, jsVars, windowVars>>
  /\ Start(t, Op("IsInitialized", "", "none", EmptyText))
  /\ InitMuFree
  /\ FreshCall(t)
  /\ Return(t, RetBool(evalLog # <<>>))
  /\ UNCHANGED <<registryVars, initVars, pendingVars>>

\* Bridge.IsInitialized(): the flag, read under the read lock of initMu,
\* which waits while an Init holds the mutex.
IsInitialized(t) ==
  /\ UNCHANGED <<wire, jsVars, windowVars>>
  /\ Start(t, Op("IsInitialized", "", "none", EmptyText))
  /\ InitMuFree
  /\ FreshCall(t)
  /\ Return(t, RetBool(initialized))
  /\ UNCHANGED <<registryVars, initVars, pendingVars>>

(***************************************************************************)
(* Bridge.Emit                                                             *)
(***************************************************************************)
\* the script Emit submits: window.gomad && window.gomad._handleEvent(<text>)
EventScript(text) ==
  [js |-> "window.gomad && window.gomad._handleEvent", arg |-> text]

\* the errors of Emit
EmitCreateError ==
  WrappingError("failed to create event message: " \o UnsupportedTypeError,
                UnsupportedTypeError)
EvalError == PlainError("eval failed")

\* an Emit that submits its script also when the message could not be built
EmitAlwaysSubmits(t, event, data) ==
  /\ UNCHANGED <<wire, jsVars, windowVars>>
  /\ Start(t, Op("Emit", event, "none", EmptyText))
  /\ FreshCall(t)
  /\ \E accepted \in BOOLEAN, now \in Clock :
       LET text == ToJSON(NewEventMessage(event, data, now))
       IN /\ evalLog' = Append(evalLog, [js |-> EventScript(text), ok |-> accepted])
          /\ Return(t, RetError(IF MarshalFails(data) THEN EmitCreateError
                                ELSE IF accepted THEN NilError ELSE EvalError))
  /\ UNCHANGED <<registryVars, initialized, initMu, pendingVars>>

\* Emit(event, data): the message is built and written, the script is handed
\* to the evaluator, and what the evaluator answers is returned.  No lock is
\* taken and nothing is waited for.
\* an Emit that submits nothing before Init has succeeded
EmitWhenInitialized(t, event, data) ==
  /\ UNCHANGED <<wire, jsVars, windowVars>>
  /\ Start(t, Op("Emit", event, "none", EmptyText))
  /\ FreshCall(t)
  /\ IF MarshalFails(data) \/ ~initialized
       THEN /\ UNCHANGED evalLog
            /\ Return(t, RetError(EmitCreateError))
       ELSE \E accepted \in BOOLEAN, now \in Clock :
              LET text == ToJSON(NewEventMessage(event, data, now))
              IN /\ evalLog' = Append(evalLog,
                                      [js |-> EventScript(text), ok |-> accepted])
                 /\ Return(t, RetError(IF accepted THEN NilError ELSE EvalError))
  /\ UNCHANGED <<registryVars, initialized, initMu, pendingVars>>

Emit(t, event, data) ==
  /\ UNCHANGED <<wire, jsVars, windowVars>>
  /\ Start(t, Op("Emit", event, "none", EmptyText))
  /\ FreshCall(t)
  /\ IF MarshalFails(data)
       THEN /\ UNCHANGED evalLog
            /\ Return(t, RetError(EmitCreateError))
       ELSE \E accepted \in BOOLEAN, now \in Clock :
              LET text == ToJSON(NewEventMessage(event, data, now))
              IN /\ evalLog' = Append(evalLog,
                                      [js |-> EventScript(text), ok |-> accepted])
                 /\ Return(t, RetError(IF accepted THEN NilError ELSE EvalError))
  /\ UNCHANGED <<registryVars, initialized, initMu, pendingVars>>

(***************************************************************************)
(* The web side: the companion script (JSBridgeCode) and the call function *)
(* the webview layer puts in its place.  The page runs one handler at a    *)
(* time, so every handler is one step.  A parsed message is read as        *)
(* FromJSON reads it: a key the text does not hold is undefined, and       *)
(* undefined is falsy like the zero value.                                 *)
(***************************************************************************)
\* a JavaScript error: its name and message, and the code and details set on
\* it (coded tells that a code was set)
JSError(name, message, coded, code, details) ==
  [name |-> name, message |-> message, coded |-> coded, code |-> code,
   details |-> details]
NoJSError == JSError("", "", FALSE, 0, "")

\* new Promise(...): pending; value is undefined until it is resolved
Promise(id) ==
  [id |-> id, state |-> "pending", value |-> RawAbsent, err |-> NoJSError]

\* resolve and reject settle a pending promise and do nothing to a settled one
Resolve(p, value) ==
  IF p.state = "pending" THEN [p EXCEPT !.state = "resolved", !.value = value] ELSE p
Reject(p, err) ==
  IF p.state = "pending" THEN [p EXCEPT !.state = "rejected", !.err = err] ELSE p

\* generateId(): 'js_' + (++callIdCounter)
generateId(counter) == "js_" \o ToString(counter)

\* Date.now() on the web side
JSClock == {1600}

\* JSON.stringify(message) of the message call builds: every key is written
JSONStringify(message) ==
  Object({"id", "type", "method", "args", "timestamp"}, message)

\* the message call builds
CallMessage(id, method, a, now) ==
  [ZeroMessage EXCEPT !.ID = id, !.Type = MessageTypeCall, !.Method = method,
                      !.Args = ArgsArray(a), !.Timestamp = now]

\* What the page offers for sending: window.external.invoke that takes the
\* text ("invoke"), one that throws ("throws"), or no bridge ("none").
BridgeKinds == {"invoke", "throws", "none"}

\* m without the entry under key k
Without(m, k) == [i \in DOMAIN m \ {k} |-> m[i]]

\* m with v under key k
With(m, k, v) == [i \in DOMAIN m \cup {k} |-> IF i = k THEN v ELSE m[i]]

\* gomad.call(method, ...args) of the companion script
JSCall(method, a, bridge, now) ==
  /\ nops < MaxOps
  /\ nops' = nops + 1
  /\ callIdCounter' = callIdCounter + 1
  /\ LET id == generateId(callIdCounter + 1)
         p == Promise(id)
         i == Len(promises) + 1
     IN CASE bridge = "invoke" ->
               /\ promises' = Append(promises, p)
               /\ jsPendingCalls' = With(jsPendingCalls, id, i)
               /\ posted' = Append(posted,
                                   JSONStringify(CallMessage(id, method, a, now)))
          [] bridge = "throws" ->
               /\ promises' = Append(promises,
                    Reject(p, JSError("Error", "invoke failed", FALSE, 0, "")))
               /\ jsPendingCalls' = Without(With(jsPendingCalls, id, i), id)
               /\ posted' = posted
          [] OTHER ->
               /\ promises' = Append(promises,
                    Reject(p, JSError("Error", "No bridge available", FALSE, 0, "")))
               /\ jsPendingCalls' = With(jsPendingCalls, id, i)
               /\ posted' = posted
  /\ UNCHANGED <<responded, eventListeners, invoked, nativeVars, windowVars>>

\* the IDs of the responses delivered, with the one of text
Responded(text) ==
  LET msg == FromJSON(text).msg
  IN IF /\ text.form = "object"
        /\ msg.Type \in {MessageTypeResult, MessageTypeError}
        /\ msg.ID # ""
       THEN Append(responded, msg.ID) ELSE responded

\* a handler that settles the promise and keeps its entry
JSHandleResponseKeepsEntry(text) ==
  /\ nops < MaxOps
  /\ nops' = nops + 1
  /\ responded' = Responded(text)
  /\ LET msg == FromJSON(text).msg
     IN IF text.form # "object" \/ msg.ID = "" \/ msg.ID \notin DOMAIN jsPendingCalls
          THEN UNCHANGED <<jsPendingCalls, promises>>
          ELSE LET i == jsPendingCalls[msg.ID]
               IN /\ jsPendingCalls' = jsPendingCalls
                  /\ promises' =
                       CASE msg.Type = MessageTypeError /\ msg.Error.set ->
                              [promises EXCEPT ![i] =
                                 Reject(@, JSError("Error", msg.Error.Message, TRUE,
                                                   msg.Error.Code, msg.Error.Details))]
                         [] msg.Type = MessageTypeResult ->
                              [promises EXCEPT ![i] = Resolve(@, msg.Result)]
                         [] OTHER -> promises
  /\ UNCHANGED <<callIdCounter, posted, eventListeners, invoked, nativeVars, windowVars>>

\* gomad._handleResponse(msgJson): a text that does not parse, a message
\* without id and one whose id has no entry are dropped; otherwise the entry
\* is deleted and the promise rejected (error) or resolved (result).  An
\* error message without error payload throws a TypeError inside the try,
\* after the delete.
JSHandleResponse(text) ==
  /\ nops < MaxOps
  /\ nops' = nops + 1
  /\ responded' = Responded(text)
  /\ LET msg == FromJSON(text).msg
     IN IF text.form # "object" \/ msg.ID = "" \/ msg.ID \notin DOMAIN jsPendingCalls
          THEN UNCHANGED <<jsPendingCalls, promises>>
          ELSE LET i == jsPendingCalls[msg.ID]
               IN /\ jsPendingCalls' = Without(jsPendingCalls, msg.ID)
                  /\ promises' =
                       CASE msg.Type = MessageTypeError /\ msg.Error.set ->
                              [promises EXCEPT ![i] =
                                 Reject(@, JSError("Error", msg.Error.Message, TRUE,
                                                   msg.Error.Code, msg.Error.Details))]
                         [] msg.Type = MessageTypeResult ->
                              [promises EXCEPT ![i] = Resolve(@, msg.Result)]
                         [] OTHER -> promises
  /\ UNCHANGED <<callIdCounter, posted, eventListeners, invoked, nativeVars, windowVars>>

\* the webview layer's call with an error that carries no code
OverrideSettleNoCode(p, responseJSON) ==
  LET response == FromJSON(responseJSON).msg
  IN CASE responseJSON.form = "empty" -> Resolve(p, RawAbsent)
       [] responseJSON.form = "malformed" ->
            Reject(p, JSError("Error", "Invalid response from Go", FALSE, 0, ""))
       [] response.Type = MessageTypeError /\ response.Error.set ->
            Reject(p, JSError("Error", response.Error.Message, FALSE, 0, ""))
       [] response.Type = MessageTypeError ->
            Reject(p, JSError("TypeError", "response.error is undefined", FALSE, 0, ""))
       [] OTHER -> Resolve(p, response.Result)

\* The webview layer's call after __gomad_invoke has answered responseJSON:
\* no text resolves to undefined, a text that does not parse rejects with
\* 'Invalid response from Go', an error message rejects with its message and
\* code, anything else resolves with its result.
OverrideSettle(p, responseJSON) ==
  LET response == FromJSON(responseJSON).msg
  IN CASE responseJSON.form = "empty" -> Resolve(p, RawAbsent)
       [] responseJSON.form = "malformed" ->
            Reject(p, JSError("Error", "Invalid response from Go", FALSE, 0, ""))
       [] response.Type = MessageTypeError /\ response.Error.set ->
            Reject(p, JSError("Error", response.Error.Message, TRUE,
                              response.Error.Code, ""))
       [] response.Type = MessageTypeError ->
            Reject(p, JSError("TypeError", "response.error is undefined", FALSE, 0, ""))
       [] OTHER -> Resolve(p, response.Result)

\* 'js_' + Date.now() + '_' + Math.random().toString(36).substr(2, 9)
OverrideIDs == {"js_1600_k3x9a2b1c"}

\* window.gomad.call as the webview layer replaces it: the text goes to
\* __gomad_invoke, and the promise is settled from the text that comes back.
OverrideCall(id, method, a, now, responseJSON) ==
  /\ nops < MaxOps
  /\ nops' = nops + 1
  /\ posted' = Append(posted, JSONStringify(CallMessage(id, method, a, now)))
  /\ promises' = Append(promises, OverrideSettle(Promise(id), responseJSON))
  /\ UNCHANGED <<callIdCounter, jsPendingCalls, responded, eventListeners, invoked,
                 nativeVars, windowVars>>

\* The callbacks a page subscribes: a and b return, throws throws, once
\* calls the unsubscribe function on() gave it, then returns.
Callbacks == {"a", "b", "throws", "once"}

\* eventListeners.get(event), or no callbacks
Listeners(event) ==
  IF event \in DOMAIN eventListeners THEN eventListeners[event] ELSE <<>>

\* listeners.splice(listeners.indexOf(callback), 1) when the index is > -1
RemoveFirst(listeners, callback) ==
  IF \E i \in 1..Len(listeners) : listeners[i] = callback
    THEN LET i == CHOOSE j \in 1..Len(listeners) :
                    /\ listeners[j] = callback
                    /\ \A k \in 1..(j - 1) : listeners[k] # callback
         IN SubSeq(listeners, 1, i - 1) \o SubSeq(listeners, i + 1, Len(listeners))
    ELSE listeners

\* gomad.on(event, callback)
JSOn(event, callback) ==
  /\ nops < MaxOps
  /\ nops' = nops + 1
  /\ eventListeners' = With(eventListeners, event, Append(Listeners(event), callback))
  /\ UNCHANGED <<callIdCounter, jsPendingCalls, promises, posted, responded, invoked,
                 nativeVars, windowVars>>

\* The function on(event, callback) returned, called by the page: the first
\* entry of callback in the event's array, if there is one, is removed.
JSUnsubscribe(event, callback) ==
  /\ nops < MaxOps
  /\ nops' = nops + 1
  /\ eventListeners' =
       IF event \notin DOMAIN eventListeners THEN eventListeners
       ELSE [eventListeners EXCEPT ![event] = RemoveFirst(@, callback)]
  /\ UNCHANGED <<callIdCounter, jsPendingCalls, promises, posted, responded, invoked,
                 nativeVars, windowVars>>

\* gomad.off(event, callback): with a callback its first entry is removed,
\* without one ("undefined") the event's entry is deleted
JSOff(event, callback) ==
  /\ nops < MaxOps
  /\ nops' = nops + 1
  /\ eventListeners' =
       IF event \notin DOMAIN eventListeners THEN eventListeners
       ELSE IF callback # "undefined"
              THEN [eventListeners EXCEPT ![event] = RemoveFirst(@, callback)]
              ELSE Without(eventListeners, event)
  /\ UNCHANGED <<callIdCounter, jsPendingCalls, promises, posted, responded, invoked,
                 nativeVars, windowVars>>

\* listeners.forEach(callback => { try { callback(data) } catch ... }) from
\* index k (0-based), with n the length the array had when forEach began: an
\* index the array no longer has is skipped, and what a callback does to the
\* array (once removes itself) is seen by the rest of the walk.
RECURSIVE ForEach(_, _, _, _, _)
ForEach(listeners, k, n, data, log) ==
  IF k >= n THEN [listeners |-> listeners, log |-> log]
  ELSE IF k >= Len(listeners) THEN ForEach(listeners, k + 1, n, data, log)
  ELSE LET callback == listeners[k + 1]
           after == IF callback = "once" THEN RemoveFirst(listeners, callback)
                    ELSE listeners
       IN ForEach(after, k + 1, n, data,
                  Append(log, [callback |-> callback, data |-> data]))

\* gomad._handleEvent(msgJson)
JSHandleEvent(text) ==
  /\ nops < MaxOps
  /\ nops' = nops + 1
  /\ LET msg == FromJSON(text).msg
     IN IF \/ text.form # "object"
           \/ msg.Type # MessageTypeEvent \/ msg.Event = ""
           \/ msg.Event \notin DOMAIN eventListeners
          THEN UNCHANGED <<eventListeners, invoked>>
          ELSE LET r == ForEach(eventListeners[msg.Event], 0,
                                Len(eventListeners[msg.Event]), msg.Data, invoked)
               IN /\ eventListeners' = [eventListeners EXCEPT ![msg.Event] = r.listeners]
                  /\ invoked' = r.log
  /\ UNCHANGED <<callIdCounter, jsPendingCalls, promises, posted, responded,
                 nativeVars, windowVars>>

(***************************************************************************)
(* The native windows (package windows): NewWindow, Window.OnClose,        *)
(* Window.Close and the window procedure wndProc, which the system calls   *)
(* on the UI thread for the messages of the loop in Run.  DestroyWindow    *)
(* is the system's: it sends WM_DESTROY to the window procedure before it  *)
(* returns.                                                                *)
(***************************************************************************)
\* the operations on windows in one run
MaxWindowOps == 5

WM_DESTROY == 2
WM_CLOSE == 16

\* the handles CreateWindowEx gives out
Handles == {"h1", "h2"}

\* What OnClose is given: nil, a callback that returns true ("allow") or one
\* that returns false ("veto").
CloseCallbacks == {"nil", "allow", "veto"}

\* The UI thread back in the loop of Run.  quit: PostQuitMessage was called;
\* handled: the close requests answered so far, each with the callback that
\* was called for it ("nil": none was set).
Idle(quit, handled) ==
  [pc |-> "idle", hwnd |-> "", read |-> "nil", quit |-> quit, handled |-> handled]

\* wndProc for WM_DESTROY with the window of hwnd found in the registry: the
\* entry is deleted, closed is set and PostQuitMessage ends the loop.
WndProcDestroy(hwnd, handled) ==
  /\ windowRegistry' = windowRegistry \ {hwnd}
  /\ windows' = [windows EXCEPT ![hwnd].closed = TRUE]
  /\ ui' = Idle(TRUE, handled)

\* a DestroyWindow that leaves the window and its entry where they are
DestroyWindowFails(hwnd, handled) ==
  /\ UNCHANGED <<live, windowRegistry, windows>>
  /\ ui' = Idle(ui.quit, handled)

\* DestroyWindow(hwnd): the system destroys a window it holds and sends
\* WM_DESTROY to its window procedure; for a handle it does not hold, or
\* one without entry in the registry (DefWindowProc), nothing of the
\* program changes.
DestroyWindow(hwnd, handled) ==
  /\ live' = live \ {hwnd}
  /\ IF hwnd \in live /\ hwnd \in windowRegistry
       THEN WndProcDestroy(hwnd, handled)
       ELSE /\ UNCHANGED <<windowRegistry, windows>>
            /\ ui' = Idle(ui.quit, handled)

\* NewWindow(cfg): CreateWindowEx gives a handle the system did not hold,
\* and the window is entered in the registry, open and without callback.
NewWindow(hwnd) ==
  /\ nops < MaxWindowOps
  /\ nops' = nops + 1
  /\ ui.pc = "idle"
  /\ hwnd \notin live
  /\ hwnd \notin DOMAIN windows
  /\ live' = live \cup {hwnd}
  /\ windowRegistry' = windowRegistry \cup {hwnd}
  /\ windows' = [h \in DOMAIN windows \cup {hwnd} |->
                   IF h = hwnd THEN [onClose |-> "nil", closed |-> FALSE]
                   ELSE windows[h]]
  /\ UNCHANGED <<ui, nativeVars, jsVars>>

\* Window.OnClose(callback), from any goroutine, under w.mu
OnClose(hwnd, callback) ==
  /\ nops < MaxWindowOps
  /\ nops' = nops + 1
  /\ hwnd \in DOMAIN windows
  /\ windows' = [windows EXCEPT ![hwnd].onClose = callback]
  /\ UNCHANGED <<windowRegistry, live, ui, nativeVars, jsVars>>

\* wndProc(hwnd, WM_CLOSE, ...) up to its test w.onClose != nil, which reads
\* the field without w.mu: with no callback the window is destroyed at once.
\* The loop of Run hands out messages until PostQuitMessage.
WndProcClose(hwnd) ==
  /\ nops < MaxWindowOps
  /\ nops' = nops + 1
  /\ ui.pc = "idle"
  /\ ~ui.quit
  /\ hwnd \in live
  /\ hwnd \in windowRegistry
  /\ IF windows[hwnd].onClose = "nil"
       THEN DestroyWindow(hwnd, Append(ui.handled, [hwnd |-> hwnd, called |-> "nil"]))
       ELSE /\ ui' = [ui EXCEPT !.pc = "callback", !.hwnd = hwnd,
                                !.read = windows[hwnd].onClose]
            /\ UNCHANGED <<windowRegistry, windows, live>>
  /\ UNCHANGED <<nativeVars, jsVars>>

\* what the window procedure does with the answer of the callback it called
AfterCallback(hwnd, callback) ==
  CASE callback = "nil" ->
         /\ ui' = [ui EXCEPT !.pc = "panic"]
         /\ UNCHANGED <<windowRegistry, windows, live>>
    [] callback = "veto" ->
         /\ ui' = Idle(ui.quit, Append(ui.handled, [hwnd |-> hwnd, called |-> "veto"]))
         /\ UNCHANGED <<windowRegistry, windows, live>>
    [] OTHER ->
         DestroyWindow(hwnd, Append(ui.handled, [hwnd |-> hwnd, called |-> callback]))

\* The call w.onClose(): the field is read again, without w.mu, while
\* OnClose may have written it since the test; the build may also reuse the
\* value the test read.  A nil callback panics on the UI thread.
WndProcCallback ==
  /\ ui.pc = "callback"
  /\ \E callback \in {ui.read, windows[ui.hwnd].onClose} :
       AfterCallback(ui.hwnd, callback)
  /\ UNCHANGED <<nops, nativeVars, jsVars>>

\* Window.Close(): returns when closed is set, destroys the window otherwise.
Close(hwnd) ==
  /\ nops < MaxWindowOps
  /\ nops' = nops + 1
  /\ ui.pc = "idle"
  /\ hwnd \in DOMAIN windows
  /\ IF windows[hwnd].closed
       THEN UNCHANGED <<windowRegistry, windows, live, ui>>
       ELSE DestroyWindow(hwnd, ui.handled)
  /\ UNCHANGED <<nativeVars, jsVars>>

(***************************************************************************)
(* The inputs the goroutines draw from.                                    *)
(***************************************************************************)
\* the text of a message as the companion script writes it
CallText(id, method, a) ==
  ToJSON([ZeroMessage EXCEPT !.ID = id, !.Type = MessageTypeCall,
                             !.Method = method, !.Args = a, !.Timestamp = 1600])

ResultText(id) ==
  ToJSON([ZeroMessage EXCEPT !.ID = id, !.Type = MessageTypeResult,
                             !.Result = JNum(7)])

ErrorText(id) ==
  ToJSON([ZeroMessage EXCEPT !.ID = id, !.Type = MessageTypeError,
                             !.Error = ErrorPayload(ErrCodeExecution, "boom", "")])

\* texts that are no call and no response: no JSON, the empty string, an
\* unknown type, an inbound event, no type at all
OtherTexts ==
  {Malformed, EmptyText,
   ToJSON([ZeroMessage EXCEPT !.ID = "x1", !.Type = "ping"]),
   ToJSON([ZeroMessage EXCEPT !.ID = "x1", !.Type = MessageTypeEvent,
                              !.Event = "tick", !.Data = JNum(1)]),
   Object({"id"}, [ZeroMessage EXCEPT !.ID = "x1"])}

(***************************************************************************)
(* The program: goroutines calling into one Bridge and its Registry, with  *)
(* the values to register (name and value), the names to unregister and    *)
(* the texts the web side delivers.                                        *)
(***************************************************************************)
Step(registrations, names, texts) ==
  \/ \E t \in Threads, r \in registrations : RegisterCheck(t, r[1], r[2])
  \/ \E t \in Threads : RegisterStore(t)
  \/ \E t \in Threads, name \in names : Unregister(t, name)
  \/ \E t \in Threads, msgJSON \in texts, now \in Clock :
       HandleMessage(t, msgJSON, now)
  \/ \E t \in Threads, now \in Clock : Invoke(t, now)
  \/ \E t \in Threads : InitLock(t)
  \/ \E t \in Threads : InitCheck(t)
  \/ \E t \in Threads : InitEval(t)

(***************************************************************************)
(* Spec: registrations, removals, calls and Init racing.                   *)
(***************************************************************************)
Registrations ==
  {<<n, fn>> : n \in Names, fn \in {"ping", "greet"}}
    \cup {<<"", "ping">>, <<"g", "safeDiv">>}
    \cup {<<"f", v>> : v \in NotBindable}

RaceTexts ==
  {CallText("x1", n, a) : n \in Names, a \in {ArgsAbsent, ArgsArray(<<JStr("Ada")>>)}}
    \cup {ResultText("gomad_1")} \cup OtherTexts

\* the queries on the registry
Queries(names) ==
  \/ \E t \in Threads, name \in names : Has(t, name)
  \/ \E t \in Threads : List(t)

Next == Step(Registrations, Names, RaceTexts) \/ Queries(Names)

Spec == Init /\ [][Next]_vars

(***************************************************************************)
(* SpecCall: every function shape registered under one name, and every     *)
(* shape of argument text sent to it.                                      *)
(***************************************************************************)
CallArgs ==
  {ArgsAbsent, ArgsNull, ArgsObject, ArgsArray(<<>>),
   ArgsArray(<<JNum(4)>>), ArgsArray(<<JNum(-1)>>), ArgsArray(<<JStr("Ada")>>),
   ArgsArray(<<JNull>>), ArgsArray(<<JNum(4), JNum(2)>>),
   ArgsArray(<<JNum(4), JNum(0)>>), ArgsArray(<<JNum(4), JFrac>>),
   ArgsArray(<<JStr("Ada"), JFrac>>),
   ArgsArray(<<JNum(4), JNum(2), JNum(1)>>)}

CallRegistrations == {<<"f", fn>> : fn \in Fns}

CallTexts ==
  {CallText("x1", "f", a) : a \in CallArgs}
    \cup {CallText("x1", "g", ArgsArray(<<>>)), CallText("", "f", ArgsAbsent)}

\* the messages handed to CallWithMessage directly: two that are no call (one
\* of them names a method), and a call
DirectMessages ==
  {[ZeroMessage EXCEPT !.ID = "x1", !.Type = MessageTypeResult, !.Method = "f",
                       !.Args = ArgsArray(<<>>)],
   [ZeroMessage EXCEPT !.ID = "x2"],
   [ZeroMessage EXCEPT !.ID = "x1", !.Type = MessageTypeCall, !.Method = "f"]}

NextCall ==
  \/ Step(CallRegistrations, {"f"}, CallTexts)
  \/ \E t \in Threads, msg \in DirectMessages, now \in Clock :
       CallWithMessage(t, msg, now)

SpecCall == Init /\ [][NextCall]_vars

(***************************************************************************)
(* SpecPending: native-originated calls are pending, and the web side      *)
(* delivers responses to them, also twice and at once.                     *)
(***************************************************************************)
PendingTexts ==
  {ResultText("gomad_1"), ErrorText("gomad_1"), ResultText("gomad_2"),
   ResultText(""), CallText("x1", "f", ArgsAbsent)}

NextPending ==
  \/ IssueCall
  \/ \E t \in Threads : GenerateMsgID(t)
  \/ \E t \in Threads : PendingSend(t)
  \/ \E t \in Threads : PendingClose(t)
  \/ Step({<<"f", "ping">>}, {"f"}, PendingTexts)

SpecPending == Init /\ [][NextPending]_vars

(***************************************************************************)
(* The wire workload: a message is built by one of the four constructors   *)
(* of message.go, written with ToJSON and read back with FromJSON.         *)
(***************************************************************************)
WireIDs == {"", "gomad_1", InvalidUTF8}
WireMethods == {"", "f", InvalidUTF8}
WireArgs ==
  {GoNil, GoSlice(<<>>), GoSlice(<<GoInt(7), GoString(InvalidUTF8)>>),
   GoInt(7), GoChan}
WireValues == {GoNil, GoInt(7), GoString("Ada"), GoString(InvalidUTF8), GoChan}
WireCodes == {ErrCodeUnknown, ErrCodeExecution}
WireTexts == {"", "boom", InvalidUTF8}

\* A constructor is called and returns w; the call counts as an operation.
Built(w) ==
  /\ nops < MaxOps
  /\ nops' = nops + 1
  /\ wire' = w
  /\ UNCHANGED <<registryVars, initVars, pendingVars, callVars, pc, op, ret, jsVars,
                 windowVars>>

BuildCall(id, method, a, now) ==
  Built(IF MarshalFails(a) THEN MarshalFailed
                           ELSE RoundTrip(NewCallMessage(id, method, a, now)))

BuildResult(id, result, now) ==
  Built(IF MarshalFails(result) THEN MarshalFailed
                                ELSE RoundTrip(NewResultMessage(id, result, now)))

BuildError(id, code, message, details, now) ==
  Built(RoundTrip(NewErrorMessage(id, code, message, details, now)))

BuildEvent(event, data, now) ==
  Built(IF MarshalFails(data) THEN MarshalFailed
                              ELSE RoundTrip(NewEventMessage(event, data, now)))

NextWire ==
  \/ \E id \in WireIDs, method \in WireMethods, a \in WireArgs, now \in Clock :
       BuildCall(id, method, a, now)
  \/ \E id \in WireIDs, result \in WireValues, now \in Clock :
       BuildResult(id, result, now)
  \/ \E id \in WireIDs, code \in WireCodes, message \in WireTexts,
        details \in WireTexts, now \in Clock :
       BuildError(id, code, message, details, now)
  \/ \E event \in WireMethods, data \in WireValues, now \in Clock :
       BuildEvent(event, data, now)

SpecWire == Init /\ [][NextWire]_vars

(***************************************************************************)
(* SpecMessages: every way the native side makes a message, side by side:  *)
(* the constructors, the replies of HandleMessage and CallWithMessage, and *)
(* Emit.                                                                   *)
(***************************************************************************)
EmitEvents == {"tick", ""}
EmitData == {GoInt(7), GoNil, GoChan}

MessageTexts ==
  {CallText("x1", "f", ArgsArray(<<JStr("Ada")>>)), CallText("x1", "f", ArgsAbsent),
   Malformed, ToJSON([ZeroMessage EXCEPT !.ID = "x1", !.Type = "ping"])}

NextMessages ==
  \/ \E t \in Threads : RegisterCheck(t, "f", "greet")
  \/ \E t \in Threads : RegisterStore(t)
  \/ \E t \in Threads, msgJSON \in MessageTexts, now \in Clock :
       HandleMessage(t, msgJSON, now)
  \/ \E t \in Threads, now \in Clock : Invoke(t, now)
  \/ \E t \in Threads, msg \in DirectMessages, now \in Clock :
       CallWithMessage(t, msg, now)
  \/ \E t \in Threads, event \in EmitEvents, data \in EmitData :
       Emit(t, event, data)
  \/ \E method \in {"", "f"}, a \in {GoNil, GoSlice(<<GoInt(7)>>)}, now \in Clock :
       BuildCall("x1", method, a, now)
  \/ \E result \in {GoNil, GoInt(7)}, now \in Clock :
       BuildResult("x1", result, now)
  \/ \E now \in Clock : BuildError("x1", ErrCodeUnknown, "boom", "", now)
  \/ \E event \in EmitEvents, data \in {GoNil, GoInt(7)}, now \in Clock :
       BuildEvent(event, data, now)

SpecMessages == Init /\ [][NextMessages]_vars

(***************************************************************************)
(* SpecBridge: the operations of Bridge - HandleMessage, Emit, Init,       *)
(* IsInitialized, generateMsgID - on goroutines, with one function         *)
(* registered in its registry.                                             *)
(***************************************************************************)
BridgeTexts ==
  {CallText("x1", "f", ArgsArray(<<JStr("Ada")>>)),
   ResultText("gomad_1"), ErrorText("gomad_1"), ResultText("")}

NextBridge ==
  \/ \E t \in Threads : RegisterCheck(t, "f", "greet")
  \/ \E t \in Threads : RegisterStore(t)
  \/ \E t \in Threads, msgJSON \in BridgeTexts, now \in Clock :
       HandleMessage(t, msgJSON, now)
  \/ \E t \in Threads, now \in Clock : Invoke(t, now)
  \/ \E t \in Threads : Emit(t, "tick", GoInt(7))
  \/ \E t \in Threads : InitLock(t)
  \/ \E t \in Threads : InitCheck(t)
  \/ \E t \in Threads : InitEval(t)
  \/ \E t \in Threads : IsInitialized(t)
  \/ \E t \in Threads : GenerateMsgID(t)

SpecBridge == Init /\ [][NextBridge]_vars

(***************************************************************************)
(* SpecInit: Init and IsInitialized on goroutines, with an evaluator that  *)
(* accepts or fails.                                                       *)
(***************************************************************************)
NextInit ==
  \/ \E t \in Threads : InitLock(t)
  \/ \E t \in Threads : InitCheck(t)
  \/ \E t \in Threads : InitEval(t)
  \/ \E t \in Threads : IsInitialized(t)

SpecInit == Init /\ [][NextInit]_vars

(***************************************************************************)
(* SpecWindow: windows are made, given close callbacks, asked to close by  *)
(* the system and closed by the program.                                   *)
(***************************************************************************)
NextWindow ==
  \/ \E hwnd \in Handles : NewWindow(hwnd)
  \/ \E hwnd \in Handles, callback \in CloseCallbacks : OnClose(hwnd, callback)
  \/ \E hwnd \in Handles : WndProcClose(hwnd)
  \/ WndProcCallback
  \/ \E hwnd \in Handles : Close(hwnd)

SpecWindow == Init /\ [][NextWindow]_vars

(***************************************************************************)
(* SpecJS: a page calls, subscribes and unsubscribes, and the native side  *)
(* delivers replies and events built by its constructors.                  *)
(***************************************************************************)
\* the replies the native side gives: results and errors under the IDs of
\* the page's calls, under an ID no call has and under no ID
NativeErrors ==
  {[id |-> "js_1", code |-> ErrCodeExecution, message |-> "boom"],
   [id |-> "", code |-> ErrCodeExecution, message |-> "boom"],
   [id |-> "js_1", code |-> ErrCodeMethodNotFound,
    message |-> "binding 'f' failed: not found"]}

NativeErrorText(e) == ToJSON(NewErrorMessage(e.id, e.code, e.message, "", 1700))

ResponseTexts ==
  {ToJSON(NewResultMessage(id, GoInt(7), 1700)) : id \in {"js_1", "js_9", ""}}
    \cup {NativeErrorText(e) : e \in NativeErrors}
    \cup {ToJSON(NewEventMessage("tick", GoInt(7), 1700)), Malformed}

\* what __gomad_invoke answers a call with
InvokeErrors ==
  {[id |-> "js_1600_k3x9a2b1c", code |-> ErrCodeInvalidArgs,
    message |-> "expected 1 arguments, got 0"],
   [id |-> "js_1600_k3x9a2b1c", code |-> ErrCodeMethodNotFound,
    message |-> "binding 'f' failed: not found"]}

InvokeReplies ==
  {ToJSON(NewResultMessage("js_1600_k3x9a2b1c", GoString("Ada"), 1700)), Malformed}
    \cup {NativeErrorText(e) : e \in InvokeErrors}

\* the events the native side emits
EventTexts ==
  {ToJSON(NewEventMessage("tick", GoInt(7), 1700)),
   ToJSON(NewEventMessage("", GoInt(7), 1700)),
   ToJSON(NewResultMessage("js_1", GoInt(7), 1700))}

NextJS ==
  \/ \E bridge \in BridgeKinds, now \in JSClock :
       JSCall("f", <<JStr("Ada")>>, bridge, now)
  \/ \E text \in ResponseTexts : JSHandleResponse(text)
  \/ \E id \in OverrideIDs, now \in JSClock, responseJSON \in InvokeReplies :
       OverrideCall(id, "f", <<JStr("Ada")>>, now, responseJSON)
  \/ \E event \in {"tick", "tock"}, callback \in Callbacks : JSOn(event, callback)
  \/ \E callback \in {"a", "undefined"} : JSOff("tick", callback)
  \/ \E callback \in {"a", "b"} : JSUnsubscribe("tick", callback)
  \/ \E text \in EventTexts : JSHandleEvent(text)

SpecJS == Init /\ [][NextJS]_vars

(***************************************************************************)
(* SpecResponses: SpecJS with a sender that also delivers, under the ID of *)
(* a call of the page, messages that are no result and no complete error.  *)
(***************************************************************************)
\* a message of a type the handler does not know, a call, and an error
\* message without error payload, each under the ID of the page's first call
StrayTexts ==
  {ToJSON([ZeroMessage EXCEPT !.ID = "js_1", !.Type = "ping"]),
   ToJSON(NewCallMessage("js_1", "f", GoSlice(<<>>), 1700)),
   ToJSON([ZeroMessage EXCEPT !.ID = "js_1", !.Type = MessageTypeError])}

NextResponses ==
  \/ NextJS
  \/ \E text \in StrayTexts : JSHandleResponse(text)

SpecResponses == Init /\ [][NextResponses]_vars

(***************************************************************************)
(* What the claims speak of.                                               *)
(***************************************************************************)
\* the operation of t has returned (or was left by a panic)
Finished(t) == pc[t] = "idle" /\ op[t].kind # "none"

\* the message HandleMessage decoded in the operation of t
Request(t) == FromJSON(op[t].text).msg

\* the operation of t is HandleMessage on a well-formed call message
IsCall(t) ==
  /\ op[t].kind = "HandleMessage"
  /\ op[t].text.form = "object"
  /\ Request(t).Type = MessageTypeCall

\* the call of t found its method registered: f is the function it found
Found(t) == IsCall(t) /\ bound[t] # NoBound

\* the args of a call are an argument array (absent and null count as the
\* empty array), and its length
IsArgArray(a) == a.k \in {"absent", "null", "array"}
ArgCount(a) == IF a.k = "array" THEN Len(a.elems) ELSE 0

\* the declared parameter types of the function the call of t found
Params(t) == FnIn(bound[t].Fn)

\* the argument array of t has the declared length and every element decodes
\* into the declared parameter type
ValidArgs(t) ==
  LET a == Request(t).Args
  IN /\ IsArgArray(a)
     /\ ArgCount(a) = Len(Params(t))
     /\ \A i \in 1..ArgCount(a) : Unmarshal(a.elems[i], Params(t)[i]).err = "nil"

\* the decoded arguments of a valid argument array
Decoded(t) ==
  [i \in 1..Len(Params(t)) |-> Unmarshal(Request(t).Args.elems[i], Params(t)[i]).v]

\* C1: a call whose argument array has a length other than the number of
\* declared parameters of the function registered under its name fails with
\* the invalid-argument error, and the function is not invoked.
C1_ArgumentCountMismatch ==
  \A t \in Threads :
    (Found(t) /\ IsArgArray(Request(t).Args)
       /\ ArgCount(Request(t).Args) # Len(Params(t)))
      => /\ Finished(t)
         /\ calls[t] = 0
         /\ out[t].done
         /\ out[t].result = GoNil
         /\ ErrorsIs(out[t].err, ErrInvalidArgument)

\* a call with more arguments than the two parameters of its function, and
\* one with no argument array at all, have failed
C1_Witness ==
  /\ \E t \in Threads :
       /\ Found(t) /\ Finished(t)
       /\ Len(Params(t)) = 2 /\ ArgCount(Request(t).Args) = 3
       /\ ErrorsIs(out[t].err, ErrInvalidArgument)
  /\ \E t \in Threads :
       /\ Found(t) /\ Finished(t)
       /\ Len(Params(t)) = 2 /\ Request(t).Args.k \in {"absent", "null"}
       /\ ErrorsIs(out[t].err, ErrInvalidArgument)

\* the return-arity rule, on the results f yields for the decoded arguments
Normalised(t, co) ==
  LET results == FnCall(bound[t].Fn, Decoded(t)).results
      outs == FnOut(bound[t].Fn)
  IN CASE Len(outs) = 0 -> co.result = GoNil /\ co.err = NilError
       [] Len(outs) = 1 /\ outs[1] = "error" ->
            /\ co.result = GoNil
            /\ IF results[1] = GoNil THEN co.err = NilError
               ELSE co.err = AsError(results[1])
       [] Len(outs) = 1 -> co.result = results[1] /\ co.err = NilError
       [] OTHER ->
            IF results[2] # GoNil
              THEN co.result = GoNil /\ co.err = AsError(results[2])
              ELSE co.result = results[1] /\ co.err = NilError

\* C2: a call with a valid argument array invokes the function exactly once,
\* and when the function returns, Call returns its results normalised by arity.
C2_ValidCallNormalised ==
  \A t \in Threads :
    (Found(t) /\ ValidArgs(t) /\ Finished(t))
      => /\ calls[t] = 1
         /\ ~FnCall(bound[t].Fn, Decoded(t)).panic
              => /\ out[t].done
                 /\ Normalised(t, [result |-> out[t].result, err |-> out[t].err])

\* a function of two results returned a value and a non-nil error, and one
\* returned a value and nil
C2_Witness ==
  /\ \E t \in Threads :
       /\ Found(t) /\ ValidArgs(t) /\ Finished(t)
       /\ bound[t].NumOut = 2 /\ out[t].done /\ out[t].err # NilError
  /\ \E t \in Threads :
       /\ Found(t) /\ ValidArgs(t) /\ Finished(t)
       /\ bound[t].NumOut = 2 /\ out[t].done /\ out[t].err = NilError
       /\ out[t].result = GoInt(2)

\* the operation of t returned the text of a message: that message
Replied(t) == ret[t].kind = "text" /\ ret[t].text.form = "object"
Reply(t) == FromJSON(ret[t].text).msg

\* Registry.Call returned an error in the operation of t
CallFailed(t) == out[t].done /\ out[t].err # NilError

\* the arguments of the call of t are invalid: a wrong count, or an argument
\* whose JSON shape does not decode into the declared parameter type
InvalidArguments(t) ==
  LET a == Request(t).Args
  IN /\ IsArgArray(a)
     /\ \/ ArgCount(a) # Len(Params(t))
        \/ \E i \in 1..ArgCount(a) : Unmarshal(a.elems[i], Params(t)[i]).err # "nil"

\* C3: every failure of Call becomes an error message with the code of its
\* kind: -2 for a method that is not registered, -3 for invalid arguments (a
\* wrong count, or an argument that does not decode into its parameter type),
\* -4 for anything else.
C3_ErrorCodeByKind ==
  \A t \in Threads :
    (IsCall(t) /\ Finished(t) /\ CallFailed(t))
      => /\ Replied(t)
         /\ Reply(t).Type = MessageTypeError
         /\ Reply(t).Error.set
         /\ Reply(t).Error.Code =
              IF ~Found(t) THEN ErrCodeMethodNotFound
              ELSE IF InvalidArguments(t) THEN ErrCodeInvalidArgs
              ELSE ErrCodeExecution

\* C5: HandleMessage on a well-formed call message with correlation ID i
\* returns the text of one message with id i, of type result with the result
\* when Call succeeded and of type error when it failed; never the empty string.
C5_CallAnswered ==
  \A t \in Threads :
    (IsCall(t) /\ Finished(t))
      => /\ Replied(t)
         /\ Reply(t).ID = Request(t).ID
         /\ out[t].done
         /\ IF out[t].err = NilError
              THEN /\ Reply(t).Type = MessageTypeResult
                   /\ Reply(t).Result = Marshal(out[t].result)
              ELSE Reply(t).Type = MessageTypeError

\* C6: whatever the bound function does, HandleMessage returns; a call that
\* failed comes back as an error message with a standard code, and nothing
\* leaves HandleMessage as a panic.
C6_NoPanicEscapes ==
  \A t \in Threads :
    (IsCall(t) /\ Finished(t))
      => /\ ret[t].kind # "panic"
         /\ (calls[t] = 1 /\ FnCall(bound[t].Fn, args[t]).panic)
              => /\ Replied(t)
                 /\ Reply(t).Type = MessageTypeError
                 /\ Reply(t).Error.Code \in
                      {ErrCodeUnknown, ErrCodeMethodNotFound, ErrCodeInvalidArgs,
                       ErrCodeExecution}
         /\ CallFailed(t)
              => /\ Replied(t)
                 /\ Reply(t).Type = MessageTypeError
                 /\ Reply(t).Error.Code \in
                      {ErrCodeUnknown, ErrCodeMethodNotFound, ErrCodeInvalidArgs,
                       ErrCodeExecution}

\* the operation of t is HandleMessage on a response (a result or an error
\* message) that carries correlation ID c
IsResponse(t, c) ==
  /\ op[t].kind = "HandleMessage"
  /\ op[t].text.form = "object"
  /\ Request(t).Type \in {MessageTypeResult, MessageTypeError}
  /\ Request(t).ID = c

\* the send of t on its channel cannot go through: no receiver stands at the
\* open channel
Blocked(t) == pc[t] = "send" /\ ~chans[ch[t]] /\ ~consumers[ch[t]].waiting

\* C4: for a correlation ID with a pending entry, at most one response is
\* handed to the consumer; a second response with the same ID, later or at
\* the same time on another goroutine, panics nowhere, is delivered to
\* nobody and blocks no HandleMessage.
C4_AtMostOnceDelivery ==
  \A c \in DOMAIN consumers :
    /\ Len(consumers[c].got) <= 1
    /\ \A t \in Threads :
         IsResponse(t, c) => ret[t].kind # "panic" /\ ~Blocked(t)

(***************************************************************************)
(* Claims about Register, Unregister and Init, as properties of the steps. *)
(***************************************************************************)
AlreadyRegistered(name) == NewBindingError(name, "already registered", ErrAlreadyExists)

\* C7: Register(name, g), called while name is bound to f by an earlier
\* successful Register, fails with the already-exists error and leaves the
\* registry as it was: name is still bound to f, which is what a Call of
\* name looks up and invokes.
C7_DuplicateRegister ==
  [][\A t \in Threads :
       /\ \A name \in Names, g \in Fns \cup NotBindable :
            (RegisterCheck(t, name, g) /\ IsFunc(g) /\ name \in DOMAIN funcs)
              => /\ pc'[t] = "idle"
                 /\ ret'[t] = RetError(AlreadyRegistered(name))
                 /\ ErrorsIs(ret'[t].err, ErrAlreadyExists)
                 /\ funcs' = funcs
       /\ (pc[t] = "idle" /\ pc'[t] = "invoke")
            => LET name == FromJSON(op'[t].text).msg.Method
               IN name \in DOMAIN funcs /\ bound'[t].Fn = funcs[name].Fn
    ]_vars

\* a second Register of a bound name has failed and the first binding stands
C7_Witness ==
  \E t \in Threads :
    /\ op[t].kind = "Register" /\ Finished(t)
    /\ ret[t] = RetError(AlreadyRegistered(op[t].name))
    /\ op[t].name \in DOMAIN funcs
    /\ funcs[op[t].name].Fn # op[t].fn

\* C8: of the Registers that race for one unbound name exactly one succeeds:
\* a Register that reports success has stored into a free name, it never
\* replaces a binding that another successful Register stored.
C8_OneRegisterWins ==
  [][\A t \in Threads :
       (pc[t] = "store" /\ pc'[t] = "idle" /\ ret'[t] = RetError(NilError))
         => op[t].name \notin DOMAIN funcs
    ]_vars

\* C9: the script is submitted to the evaluator only while no submission
\* has succeeded, so at most one submission succeeds and none follows it;
\* an Init that finds the flag set returns nil and submits nothing.
C9_InitSubmitsOnce ==
  [][/\ evalLog' # evalLog
          => /\ ~initialized
             /\ \A i \in 1..Len(evalLog) : ~evalLog[i].ok
             /\ \E e \in [js : {JSBridgeCode}, ok : BOOLEAN] :
                  evalLog' = Append(evalLog, e)
     /\ initialized' <=> \E i \in 1..Len(evalLog') : evalLog'[i].ok
     /\ \A t \in Threads :
          (pc[t] \in {"init", "eval"} /\ pc'[t] = "idle" /\ initialized)
            => ret'[t] = RetError(NilError) /\ evalLog' = evalLog
    ]_vars

\* two goroutines have both returned nil from Init after one submission
C9_Witness ==
  /\ \A t \in Threads :
       op[t].kind = "Init" /\ Finished(t) /\ ret[t] = RetError(NilError)
  /\ Len(evalLog) = 1
  /\ evalLog[1].ok

\* C10: Unregister of a bound name removes that binding, keeps the others
\* and returns true; Unregister of an unbound name returns false and leaves
\* the registry as it is; so a second Unregister in a row returns false.
C10_UnregisterTrueThenFalse ==
  [][\A t \in Threads, name \in Names :
       Unregister(t, name)
         => /\ pc'[t] = "idle"
            /\ ret'[t].kind = "bool"
            /\ ret'[t].b = (name \in DOMAIN funcs)
            /\ name \notin DOMAIN funcs'
            /\ DOMAIN funcs' = DOMAIN funcs \ {name}
            /\ \A n \in DOMAIN funcs' : funcs'[n] = funcs[n]
    ]_vars

\* one Unregister of a name has returned true and the next one false
C10_Witness ==
  \E name \in Names :
    /\ name \notin DOMAIN funcs
    /\ op["t1"] = Op("Unregister", name, "none", EmptyText)
    /\ op["t2"] = Op("Unregister", name, "none", EmptyText)
    /\ ret["t1"] = RetBool(TRUE)
    /\ ret["t2"] = RetBool(FALSE)

(***************************************************************************)
(* Claims about what HandleMessage does with texts it cannot dispatch.     *)
(***************************************************************************)
\* texts that do not decode into a Message
Undecodable == {Malformed, EmptyText}

\* C11: HandleMessage on a text that does not decode into a Message returns
\* the text of an error message with code -1 and no correlation ID (the id
\* key is omitted), invokes no bound function and leaves the registry and
\* the pending-call table as they are.
C11_UndecodableText ==
  [][\A t \in Threads, text \in Undecodable, now \in Clock :
       HandleMessage(t, text, now)
         => /\ pc'[t] = "idle"
            /\ ret'[t].kind = "text"
            /\ ret'[t].text.form = "object"
            /\ "id" \notin ret'[t].text.keys
            /\ LET reply == FromJSON(ret'[t].text).msg
               IN /\ reply.ID = ""
                  /\ reply.Type = MessageTypeError
                  /\ reply.Error.set
                  /\ reply.Error.Code = ErrCodeUnknown
            /\ calls'[t] = 0
            /\ funcs' = funcs
            /\ pendingCalls' = pendingCalls
    ]_vars

\* a text that is no JSON has been answered with the code -1
C11_Witness ==
  \E t \in Threads :
    /\ op[t].kind = "HandleMessage" /\ op[t].text = Malformed
    /\ Finished(t) /\ Replied(t)
    /\ Reply(t).Error.Code = ErrCodeUnknown
    /\ Reply(t).ID = ""

\* well-formed texts whose type is none of call, result and error
Undispatchable ==
  {text \in OtherTexts :
     /\ text.form = "object"
     /\ FromJSON(text).msg.Type
          \notin {MessageTypeCall, MessageTypeResult, MessageTypeError}}

\* C12: HandleMessage on a well-formed message whose type is none of call,
\* result and error (an unknown type, no type, an inbound event) returns an
\* error message with code -1 that carries the correlation ID of the request
\* and names the type, and invokes no bound function.
C12_UnknownType ==
  [][\A t \in Threads, text \in Undispatchable, now \in Clock :
       HandleMessage(t, text, now)
         => /\ pc'[t] = "idle"
            /\ ret'[t].kind = "text"
            /\ ret'[t].text.form = "object"
            /\ LET reply == FromJSON(ret'[t].text).msg
                   request == FromJSON(text).msg
               IN /\ reply.ID = request.ID
                  /\ reply.Type = MessageTypeError
                  /\ reply.Error.set
                  /\ reply.Error.Code = ErrCodeUnknown
                  /\ reply.Error.Message = "unknown message type: " \o request.Type
            /\ calls'[t] = 0
    ]_vars

\* an inbound event and a message with no type have been answered with the
\* code -1 and their correlation ID
C12_Witness ==
  /\ \E t \in Threads :
       /\ op[t].kind = "HandleMessage" /\ Finished(t) /\ Replied(t)
       /\ Request(t).Type = MessageTypeEvent
       /\ Reply(t).ID = "x1" /\ Reply(t).Error.Code = ErrCodeUnknown
  /\ \E t \in Threads :
       /\ op[t].kind = "HandleMessage" /\ Finished(t) /\ Replied(t)
       /\ op[t].text.form = "object" /\ Request(t).Type = ""
       /\ Reply(t).ID = "x1" /\ Reply(t).Error.Code = ErrCodeUnknown

(***************************************************************************)
(* Claims about the responses to native-originated calls.                  *)
(***************************************************************************)
\* the texts of result and error messages
Responses ==
  {text \in PendingTexts :
     FromJSON(text).msg.Type \in {MessageTypeResult, MessageTypeError}}

\* C13: a result or error message whose correlation ID has no entry in the
\* pending-call table is dropped: HandleMessage returns the empty string,
\* no consumer receives anything, and the pending-call table, its channels
\* and the registry stay as they are.
C13_UnmatchedResponseDropped ==
  [][\A t \in Threads, text \in Responses, now \in Clock :
       (HandleMessage(t, text, now)
          /\ FromJSON(text).msg.ID \notin DOMAIN pendingCalls)
         => /\ pc'[t] = "idle"
            /\ ret'[t] = RetText(EmptyText)
            /\ consumers' = consumers
            /\ chans' = chans
            /\ pendingCalls' = pendingCalls
            /\ funcs' = funcs
    ]_vars

\* a response for gomad_2 was dropped while the call gomad_1 is pending
C13_Witness ==
  \E t \in Threads :
    /\ IsResponse(t, "gomad_2") /\ Finished(t)
    /\ ret[t] = RetText(EmptyText)
    /\ DOMAIN pendingCalls = {"gomad_1"}
    /\ consumers["gomad_1"] = [waiting |-> TRUE, got |-> <<>>]

\* C14: for a pending entry i whose consumer waits on the channel, the
\* handling of a response with id i hands exactly that message to the
\* consumer, then removes the entry of i, closes its channel and returns the
\* empty string; the entries and channels of other IDs stay as they are.
C14_ResponseDelivered ==
  [][\A t \in Threads :
       /\ (pc[t] = "send" /\ pc'[t] = "close")
            => /\ consumers[ch[t]] = [waiting |-> TRUE, got |-> <<>>]
               /\ consumers'[ch[t]].got = <<Request(t)>>
               /\ \A c \in DOMAIN consumers \ {ch[t]} : consumers'[c] = consumers[c]
               /\ pendingCalls' = pendingCalls /\ chans' = chans
       /\ (pc[t] = "close" /\ pc'[t] = "idle")
            => /\ ret'[t] = RetText(EmptyText)
               /\ consumers[ch[t]].got = <<Request(t)>>
               /\ consumers' = consumers
               /\ Request(t).ID \notin DOMAIN pendingCalls'
               /\ chans'[ch[t]]
               /\ \A i \in DOMAIN pendingCalls \ {Request(t).ID} :
                    /\ i \in DOMAIN pendingCalls'
                    /\ pendingCalls'[i] = pendingCalls[i]
                    /\ chans'[pendingCalls[i]] = chans[pendingCalls[i]]
    ]_vars

\* the response to gomad_1 was delivered and its entry removed, while the
\* entry of gomad_2 stands
C14_Witness ==
  \E t \in Threads :
    /\ IsResponse(t, "gomad_1") /\ Finished(t)
    /\ ret[t] = RetText(EmptyText)
    /\ DOMAIN pendingCalls = {"gomad_2"}
    /\ DOMAIN chans = {"gomad_1", "gomad_2"}
    /\ consumers["gomad_1"].got = <<Request(t)>>
    /\ chans["gomad_1"]
    /\ ~chans["gomad_2"]

(***************************************************************************)
(* Claims about calls that run while the registry changes.                 *)
(***************************************************************************)
\* the texts of call messages
Calls(texts) == {text \in texts : FromJSON(text).msg.Type = MessageTypeCall}

\* C15: a call that has done its lookup invokes the function it looked up
\* and returns that function's result, whether or not the name has been
\* unregistered since; a call whose lookup finds the name unregistered
\* fails with the not-found error.
C15_UnregisterDuringCall ==
  [][\A t \in Threads :
       /\ (pc[t] = "idle" /\ pc'[t] = "invoke")
            => bound'[t] = funcs[FromJSON(op'[t].text).msg.Method]
       /\ (pc[t] = "invoke" /\ pc'[t] = "idle")
            => LET r == FnCall(bound[t].Fn, Decoded(t))
                   co == processResults(bound[t], r.results)
               IN (~r.panic /\ co.err = NilError)
                    => /\ calls'[t] = 1
                       /\ out'[t] = Done(co)
                       /\ ret'[t].kind = "text"
                       /\ FromJSON(ret'[t].text).msg.Type = MessageTypeResult
                       /\ FromJSON(ret'[t].text).msg.ID = Request(t).ID
                       /\ FromJSON(ret'[t].text).msg.Result = Marshal(co.result)
       /\ \A text \in Calls(RaceTexts), now \in Clock :
            (HandleMessage(t, text, now)
               /\ FromJSON(text).msg.Method \notin DOMAIN funcs)
              => /\ pc'[t] = "idle"
                 /\ calls'[t] = 0
                 /\ ErrorsIs(out'[t].err, ErrNotFound)
                 /\ FromJSON(ret'[t].text).msg.Type = MessageTypeError
                 /\ FromJSON(ret'[t].text).msg.Error.Code = ErrCodeMethodNotFound
    ]_vars

\* a call is in flight, its lookup done, and the name it looked up has been
\* unregistered by the other goroutine
C15_Witness ==
  \E t \in Threads, u \in Threads :
    /\ pc[t] = "invoke"
    /\ bound[t].Fn = "greet"
    /\ Request(t).Method \notin DOMAIN funcs
    /\ op[u] = Op("Unregister", Request(t).Method, "none", EmptyText)
    /\ ret[u] = RetBool(TRUE)

\* C16: while a bound function runs, the call that invoked it holds no
\* registry lock (the read lock was held for the lookup alone), so the
\* Register, Unregister, Has, List and Call operations of another goroutine
\* all go through without waiting for the function to return.
C16_NoLockWhileInvoking ==
  \A t \in Threads :
    pc[t] = "invoke"
      => /\ t \notin mu
         /\ \A u \in Threads \ {t} :
              /\ (pc[u] = "idle" /\ nops < MaxOps)
                   => /\ \A name \in Names :
                           /\ ENABLED Unregister(u, name)
                           /\ ENABLED Has(u, name)
                           /\ ENABLED RegisterCheck(u, name, "ping")
                           /\ ENABLED HandleMessage(u,
                                CallText("x1", name, ArgsAbsent), 1700)
                      /\ ENABLED List(u)
              /\ pc[u] = "store" => ENABLED RegisterStore(u)

\* a bound function runs in one goroutine while the other stands before the
\* store of a Register
C16_Witness ==
  \E t \in Threads, u \in Threads :
    /\ pc[t] = "invoke"
    /\ pc[u] = "store"
    /\ op[u].name = Request(t).Method

(***************************************************************************)
(* Claims about what Register accepts and what the registry answers.       *)
(***************************************************************************)
\* fn returns at most two values, and the second of two is an error
ReturnShapeOK(fn) ==
  /\ Len(FnOut(fn)) <= 2
  /\ Len(FnOut(fn)) = 2 => FnOut(fn)[2] = "error"

Range(seq) == {seq[i] : i \in 1..Len(seq)}

Results(t) == FnCall(bound[t].Fn, Decoded(t)).results

\* C19: when a function of the shape (value, error) returns a non-nil error,
\* Call returns no result and that error, whatever the first value is, and
\* the reply is an error message with code -4 whose message is the text of
\* the function's error.
C19_FunctionErrorReply ==
  \A t \in Threads :
    (/\ Found(t) /\ ValidArgs(t) /\ Finished(t)
     /\ bound[t].NumOut = 2
     /\ Results(t)[2] # GoNil)
      => /\ calls[t] = 1
         /\ out[t] = Done(CallOut(GoNil, AsError(Results(t)[2])))
         /\ Replied(t)
         /\ Reply(t).ID = Request(t).ID
         /\ Reply(t).Type = MessageTypeError
         /\ Reply(t).Result = RawAbsent
         /\ Reply(t).Error.set
         /\ Reply(t).Error.Code = ErrCodeExecution
         /\ Reply(t).Error.Message = Results(t)[2].s

(***************************************************************************)
(* Claims about the messages the native side makes.                        *)
(***************************************************************************)
\* the messages the state shows: the one a constructor built last, the
\* replies HandleMessage and CallWithMessage returned, the event messages in
\* the scripts Emit submitted
NativeMessages ==
  (IF wire.made = "message" THEN {wire.m} ELSE {})
    \cup {FromJSON(ret[t].text).msg :
            t \in {u \in Threads : /\ ret[u].kind \in {"text", "message"}
                                   /\ ret[u].text.form = "object"}}
    \cup {FromJSON(evalLog[i].js.arg).msg :
            i \in {j \in 1..Len(evalLog) : "arg" \in DOMAIN evalLog[j].js}}

\* the payload groups of m that are populated in full, and in part
FullGroups(m) ==
  (IF m.Method # "" /\ m.Args.k # "absent" THEN {MessageTypeCall} ELSE {})
    \cup (IF m.Result.k # "absent" THEN {MessageTypeResult} ELSE {})
    \cup (IF m.Error.set THEN {MessageTypeError} ELSE {})
    \cup (IF m.Event # "" /\ m.Data.k # "absent" THEN {MessageTypeEvent} ELSE {})
PartGroups(m) ==
  (IF m.Method # "" \/ m.Args.k # "absent" THEN {MessageTypeCall} ELSE {})
    \cup (IF m.Result.k # "absent" THEN {MessageTypeResult} ELSE {})
    \cup (IF m.Error.set THEN {MessageTypeError} ELSE {})
    \cup (IF m.Event # "" \/ m.Data.k # "absent" THEN {MessageTypeEvent} ELSE {})

\* m has exactly the payload group of its type, and no ID when it is an event
OneGroup(m) ==
  /\ FullGroups(m) = {m.Type}
  /\ PartGroups(m) = {m.Type}
  /\ m.Type = MessageTypeEvent => m.ID = ""

\* the name a call or an event message is built around is not empty
Named(m) ==
  /\ m.Type = MessageTypeCall => m.Method # ""
  /\ m.Type = MessageTypeEvent => m.Event # ""

\* C21 as stated: every message the native side constructs or sends has
\* exactly the payload group of its type populated and no other, and an event
\* message carries no correlation ID.
C21_OnePayloadGroup == \A m \in NativeMessages : OneGroup(m)

\* C21, amended: every message the native side constructs or sends, a call
\* built with a non-empty method name or an event built with a non-empty
\* event name included, has exactly the payload group of its type populated
\* and no other, and an event message carries no correlation ID.
C21_OnePayloadGroupNamed == \A m \in NativeMessages : Named(m) => OneGroup(m)

\* a constructor has built a call message, HandleMessage has returned an
\* error reply and Emit has submitted an event message
C21_Witness ==
  /\ wire.made = "message" /\ wire.m.Type = MessageTypeCall /\ Named(wire.m)
  /\ \E t \in Threads :
       /\ op[t].kind = "HandleMessage" /\ Replied(t)
       /\ Reply(t).Type = MessageTypeError
  /\ \E i \in 1..Len(evalLog) :
       /\ "arg" \in DOMAIN evalLog[i].js
       /\ FromJSON(evalLog[i].js.arg).msg.Event = "tick"
  /\ \A m \in NativeMessages : OneGroup(m)

PromisesOf(id) == {i \in 1..Len(promises) : promises[i].id = id}

C24_AllInvoked ==
  [][\A text \in EventTexts :
       JSHandleEvent(text) =>
         LET msg == FromJSON(text).msg
             registered == Listeners(msg.Event)
         IN (msg.Type = MessageTypeEvent /\ msg.Event # "") =>
              invoked' = invoked \o [i \in 1..Len(registered) |->
                                       [callback |-> registered[i], data |-> msg.Data]]
    ]_vars

OneRemoved(before, after, callback) ==
  IF \E i \in 1..Len(before) : before[i] = callback
    THEN \E i \in 1..Len(before) :
           /\ before[i] = callback
           /\ after = SubSeq(before, 1, i - 1) \o SubSeq(before, i + 1, Len(before))
    ELSE after = before

\* the callbacks of the events other than event stay as they are
OthersKept(event) ==
  \A e \in (DOMAIN eventListeners \cup DOMAIN eventListeners') \ {event} :
    Listeners(e)' = Listeners(e)

\* on adds the callback after the ones registered; the unsubscribe function
\* and off with a callback take one entry of it out; off without a callback
\* leaves the event none; the other events keep theirs
Subscriptions ==
  /\ \A event \in {"tick", "tock"}, callback \in Callbacks :
       JSOn(event, callback) =>
         /\ Listeners(event)' = Append(Listeners(event), callback)
         /\ OthersKept(event)
  /\ \A callback \in {"a", "b"} :
       JSUnsubscribe("tick", callback) =>
         /\ OneRemoved(Listeners("tick"), Listeners("tick")', callback)
         /\ OthersKept("tick")
  /\ JSOff("tick", "a") =>
       /\ OneRemoved(Listeners("tick"), Listeners("tick")', "a")
       /\ OthersKept("tick")
  /\ JSOff("tick", "undefined") =>
       /\ Listeners("tick")' = <<>>
       /\ OthersKept("tick")

\* a delivered event named e invokes every callback registered for e and no
\* callback registered for another name only
Delivered ==
  \A text \in EventTexts :
    JSHandleEvent(text) =>
      LET msg == FromJSON(text).msg
          registered == Listeners(msg.Event)
          new == SubSeq(invoked', Len(invoked) + 1, Len(invoked'))
      IN (msg.Type = MessageTypeEvent /\ msg.Event # "") =>
           /\ \A i \in 1..Len(registered) :
                \E j \in 1..Len(new) : new[j].callback = registered[i]
           /\ \A j \in 1..Len(new) :
                \E i \in 1..Len(registered) : registered[i] = new[j].callback

\* C32: a callback subscribed with on(e, cb) is invoked for each later event
\* e until it is removed; the unsubscribe function on returned and
\* off(e, cb) remove one registration of cb for e; off(e) removes every
\* callback of e; none of them changes what is registered for other names.
C32_Subscriptions == [][Subscriptions /\ Delivered]_vars

(***************************************************************************)
(* Claims about the Bridge as the code has it.                             *)
(***************************************************************************)
\* C34: no operation of Bridge puts an entry into pendingCalls, so the table
\* is empty in every state, and every result or error message that comes in
\* is dropped: HandleMessage returns the empty string for it, finds no
\* channel and leaves every consumer and channel as it was.
C34_PendingTableEmpty ==
  [][/\ DOMAIN pendingCalls = {}
     /\ DOMAIN pendingCalls' = {}
     /\ \A t \in Threads, text \in BridgeTexts, now \in Clock :
          (/\ HandleMessage(t, text, now)
           /\ FromJSON(text).msg.Type \in {MessageTypeResult, MessageTypeError}) =>
            /\ pc'[t] = "idle"
            /\ ret'[t] = RetText(EmptyText)
            /\ ch'[t] = NoChan
            /\ UNCHANGED <<consumers, chans>>
    ]_vars

\* a correlation ID was generated, and a result and an error message
\* carrying it were both dropped
C34_Witness ==
  /\ msgIDCounter = 1
  /\ \E t \in Threads, u \in Threads :
       /\ op[t].text = ResultText("gomad_1") /\ ret[t] = RetText(EmptyText)
       /\ op[u].text = ErrorText("gomad_1") /\ ret[u] = RetText(EmptyText)
       /\ Finished(t) /\ Finished(u)

\* C35: whatever the initialization flag is, a call message for a registered
\* function goes on to the function and is answered with a result message
\* under its ID, and Emit submits its script to the evaluator; neither
\* HandleMessage nor Emit changes the flag.
C35_FlagNotConsulted ==
  [][\A t \in Threads :
       /\ \A text \in BridgeTexts, now \in Clock :
            HandleMessage(t, text, now) =>
              /\ UNCHANGED initialized
              /\ (/\ FromJSON(text).msg.Type = MessageTypeCall
                  /\ FromJSON(text).msg.Method \in DOMAIN funcs) => pc'[t] = "invoke"
       /\ \A now \in Clock :
            Invoke(t, now) =>
              /\ UNCHANGED initialized
              /\ FromJSON(ret'[t].text).msg.Type = MessageTypeResult
              /\ FromJSON(ret'[t].text).msg.ID = FromJSON(op[t].text).msg.ID
       /\ Emit(t, "tick", GoInt(7)) =>
            /\ UNCHANGED initialized
            /\ Len(evalLog') = Len(evalLog) + 1
            /\ \E now \in Clock :
                 evalLog'[Len(evalLog')].js =
                   EventScript(ToJSON(NewEventMessage("tick", GoInt(7), now)))
    ]_vars

\* Init has failed, the bridge is not initialized, and a call was answered
\* with a result all the same
C35_Witness ==
  /\ ~initialized
  /\ Len(evalLog) = 1 /\ ~evalLog[1].ok
  /\ \E t \in Threads, u \in Threads :
       /\ op[u].kind = "Init" /\ Finished(u) /\ ret[u].err # NilError
       /\ op[t].kind = "HandleMessage" /\ Finished(t)
       /\ FromJSON(ret[t].text).msg.Type = MessageTypeResult
       /\ FromJSON(ret[t].text).msg.ID = "x1"

\* some submission of the companion script in log was accepted
Succeeded(log) == \E i \in 1..Len(log) : log[i].js = JSBridgeCode /\ log[i].ok

\* C36: an Init whose submission the evaluator fails returns an error and
\* leaves the bridge uninitialized, an Init that finds it uninitialized
\* submits the companion script (again, after a failure), and the flag - and
\* what IsInitialized answers - is true exactly when some submission of an
\* Init was accepted.
C36_InitFailureRetried ==
  [][/\ initialized = Succeeded(evalLog)
     /\ initialized' = Succeeded(evalLog')
     /\ \A t \in Threads :
          /\ InitCheck(t) => (pc'[t] = "eval") = ~initialized
          /\ InitEval(t) =>
               LET sub == evalLog'[Len(evalLog')]
               IN /\ Len(evalLog') = Len(evalLog) + 1
                  /\ sub.js = JSBridgeCode
                  /\ sub.ok = (ret'[t].err = NilError)
                  /\ sub.ok = initialized'
          /\ IsInitialized(t) => ret'[t] = RetBool(Succeeded(evalLog))
    ]_vars

\* a first Init failed, a second one submitted the script again and
\* succeeded, and IsInitialized then answered true
C36_Witness ==
  /\ Len(evalLog) = 2 /\ ~evalLog[1].ok /\ evalLog[2].ok
  /\ initialized
  /\ \E t \in Threads :
       op[t].kind = "IsInitialized" /\ Finished(t) /\ ret[t] = RetBool(TRUE)

(***************************************************************************)
(* Claims about the companion script's tables.                             *)
(***************************************************************************)
\* C38: in the companion script a call whose promise is settled - resolved,
\* rejected by a reply, rejected because the page has no native channel or
\* because sending threw - has no entry in pendingCalls: every entry of the
\* table belongs to a pending promise.
C38_NoEntryForSettled ==
  \A id \in DOMAIN jsPendingCalls :
    promises[jsPendingCalls[id]].state = "pending"

\* C39: a step of the response handler that removes the entry of a pending
\* promise settles that promise, whatever the type of the delivered message.
C39_RemovedIsSettled ==
  [][\A text \in ResponseTexts \cup StrayTexts :
       JSHandleResponse(text) =>
         \A id \in DOMAIN jsPendingCalls :
           (/\ id \notin DOMAIN jsPendingCalls'
            /\ promises[jsPendingCalls[id]].state = "pending")
             => promises'[jsPendingCalls[id]].state # "pending"
    ]_vars

\* the entries of log that invoke callback
Invocations(log, callback) ==
  Cardinality({i \in 1..Len(log) : log[i].callback = callback})

\* the entries of listeners that hold callback
Subscribed(listeners, callback) ==
  Cardinality({i \in 1..Len(listeners) : listeners[i] = callback})

\* C40: one delivery of event e invokes each callback once for each time it
\* was registered for e when the delivery began - no callback of the model
\* removes another - also when a callback unsubscribes itself during the
\* delivery.
C40_EachInvokedOnce ==
  [][\A text \in EventTexts :
       JSHandleEvent(text) =>
         LET msg == FromJSON(text).msg
             registered == Listeners(msg.Event)
             fresh == SubSeq(invoked', Len(invoked) + 1, Len(invoked'))
         IN (msg.Type = MessageTypeEvent /\ msg.Event # "") =>
              \A callback \in Callbacks :
                Invocations(fresh, callback) = Subscribed(registered, callback)
    ]_vars

(***************************************************************************)
(* Claims about failing registrations.                                     *)
(***************************************************************************)
\* the step of t is one of a Register
RegisterStep(t) ==
  \/ \E r \in Registrations : RegisterCheck(t, r[1], r[2])
  \/ RegisterStore(t)

\* C37: a Register that fails - empty name, nil value, value that is no
\* function, name already registered, more than two return values, second
\* return value not an error - changes nothing in the registry: no step of
\* it before the successful store touches the map, and the step in which it
\* returns its error leaves every binding as it was.
C37_FailedRegisterNoEffect ==
  [][\A t \in Threads :
       RegisterStep(t) =>
         /\ (pc'[t] = "idle" /\ ret'[t].err # NilError) => funcs' = funcs
         /\ pc'[t] = "store" => funcs' = funcs
         /\ funcs' # funcs => ret'[t] = RetError(NilError)
    ]_vars

\* with f registered, one Register failed on the duplicate name and one on a
\* function of three return values, and f is bound as before
C37_Witness ==
  \E t \in Threads, u \in Threads :
    /\ op[t].kind = "Register" /\ Finished(t)
    /\ ret[t] = RetError(AlreadyRegistered("f"))
    /\ op[u].kind = "Register" /\ op[u].fn = "threeOut" /\ Finished(u)
    /\ ret[u].err # NilError
    /\ DOMAIN funcs = {"f"}
    /\ funcs["f"].Fn \in {"ping", "greet"}

(***************************************************************************)
(* Claims about the windows.                                               *)
(***************************************************************************)
\* the window of hwnd is gone: the system does not hold it, the registry has
\* no entry for it and its closed flag is set
Destroyed(hwnd) ==
  /\ hwnd \notin live'
  /\ hwnd \notin windowRegistry'
  /\ windows'[hwnd].closed

\* the window of hwnd is as it was: held, registered and open
Kept(hwnd) ==
  /\ hwnd \in live' /\ hwnd \in windowRegistry'
  /\ ~windows'[hwnd].closed
  /\ UNCHANGED <<windowRegistry, windows, live>>

\* C33: a close request to a registered window destroys it when no close
\* callback is set or the callback called returns true - WM_DESTROY then
\* takes it out of the registry and sets its closed flag - and leaves it
\* registered and open when the callback returns false; a window is closed
\* exactly when it has left the registry, and no window but the one asked to
\* close changes.
C33_CloseRequest ==
  [][/\ \A hwnd \in Handles :
          (WndProcClose(hwnd) /\ windows[hwnd].onClose = "nil") => Destroyed(hwnd)
     /\ (WndProcCallback /\ ui'.pc = "idle") =>
          LET last == ui'.handled[Len(ui'.handled)]
          IN /\ Len(ui'.handled) = Len(ui.handled) + 1
             /\ last.hwnd = ui.hwnd
             /\ last.called \in {ui.read, windows[ui.hwnd].onClose}
             /\ last.called = "veto" => Kept(ui.hwnd)
             /\ last.called = "allow" => Destroyed(ui.hwnd)
             /\ \A h \in DOMAIN windows \ {ui.hwnd} :
                  /\ windows'[h] = windows[h]
                  /\ (h \in windowRegistry') = (h \in windowRegistry)
     /\ \A h \in DOMAIN windows' : windows'[h].closed = (h \notin windowRegistry')
    ]_vars

\* a window whose callback returned false stayed, and was destroyed by a
\* later request when its callback returned true
C33_Witness ==
  /\ ui.handled = <<[hwnd |-> "h1", called |-> "veto"],
                    [hwnd |-> "h1", called |-> "allow"]>>
  /\ windows["h1"].closed
  /\ "h1" \notin windowRegistry

(***************************************************************************)
(* Claims about the locks.                                                 *)
(***************************************************************************)
\* The locks goroutine t holds between two steps.  No operation takes
\* eventMu, so nobody ever holds it.
Holds(t) ==
  (IF t \in mu THEN {"mu"} ELSE {})
    \cup (IF pendingMu = t THEN {"pendingMu"} ELSE {})
    \cup (IF initMu = t THEN {"initMu"} ELSE {})

\* the steps in which t takes the registry lock
TakesRegistryLock(t) ==
  \/ RegisterCheck(t, "f", "ping")
  \/ RegisterStore(t)
  \/ Unregister(t, "f")
  \/ \E now \in Clock : HandleMessage(t, CallText("x1", "f", ArgsAbsent), now)

\* the steps in which t takes the pending-table lock
TakesPendingLock(t) ==
  \/ PendingClose(t)
  \/ \E text \in {ResultText("gomad_1"), ErrorText("gomad_1"), ResultText("gomad_2")},
        now \in Clock : HandleMessage(t, text, now)

\* C31: no goroutine holds two of the locks at once: it holds at most one
\* between steps, it holds none of the others in a step that takes the
\* registry lock, the pending-table lock or the init lock, and a goroutine
\* that holds a lock stands inside Init, where its next step waits for no
\* lock; so no goroutine waits for a lock while holding one, and no cycle of
\* lock waits can form.
C31_LocksIndependent ==
  [][\A t \in Threads :
       /\ Cardinality(Holds(t)) <= 1
       /\ Holds(t) # {} => pc[t] \in {"init", "eval"}
       /\ TakesRegistryLock(t) => Holds(t) = {}
       /\ TakesPendingLock(t) => Holds(t) = {}
       /\ InitLock(t) => Holds(t) = {} /\ Holds(t)' = {"initMu"}
    ]_vars

\* one goroutine is inside Init with the init lock while the other stands
\* before the pending-table lock of handlePendingResponse
C31_Witness ==
  \E t \in Threads, u \in Threads :
    /\ Holds(t) = {"initMu"}
    /\ pc[t] = "eval"
    /\ pc[u] = "close"

(***************************************************************************)
(* Claims about CallWithMessage.                                           *)
(***************************************************************************)
\* C27: CallWithMessage given a message whose type is not call returns at
\* once an error message with the same correlation ID and code -1; it takes
\* no lock on the registry, looks up no function and invokes none.
C27_NonCallRejected ==
  [][\A t \in Threads, msg \in DirectMessages, now \in Clock :
       (CallWithMessage(t, msg, now) /\ msg.Type # MessageTypeCall)
         => /\ pc'[t] = "idle"
            /\ ret'[t].kind = "message"
            /\ LET reply == FromJSON(ret'[t].text).msg
               IN /\ reply.Type = MessageTypeError
                  /\ reply.ID = msg.ID
                  /\ reply.Error.set
                  /\ reply.Error.Code = ErrCodeUnknown
                  /\ reply.Result = RawAbsent
            /\ calls'[t] = 0
            /\ bound'[t] = NoBound
            /\ out'[t] = NoCallOut
            /\ mu' = mu /\ funcs' = funcs]_vars

\* CallWithMessage has answered a result-type message that names a
\* registered method
C27_Witness ==
  \E t \in Threads :
    /\ op[t].kind = "CallWithMessage" /\ Finished(t)
    /\ Request(t).Type = MessageTypeResult
    /\ Request(t).Method \in DOMAIN funcs
    /\ ret[t].kind = "message"
    /\ Reply(t).Error.Code = ErrCodeUnknown
    /\ Reply(t).ID = "x1"

\* the function the call of t found has returned a value that json.Marshal
\* rejects, and no error
Unserialisable(t) ==
  /\ op[t].kind \in {"HandleMessage", "CallWithMessage"}
  /\ op[t].text.form = "object"
  /\ Request(t).Type = MessageTypeCall
  /\ Finished(t)
  /\ out[t].done /\ out[t].err = NilError
  /\ MarshalFails(out[t].result)

\* C28: when Call succeeds but its result cannot be serialised,
\* CallWithMessage returns an error message with code -4 and the request's
\* correlation ID and no result; the operation returns normally.
C28_UnserialisableResult ==
  \A t \in Threads :
    Unserialisable(t)
      => /\ ret[t].kind \in {"text", "message"}
         /\ ret[t].text.form = "object"
         /\ Reply(t).Type = MessageTypeError
         /\ Reply(t).ID = Request(t).ID
         /\ Reply(t).Error.set
         /\ Reply(t).Error.Code = ErrCodeExecution
         /\ Reply(t).Result = RawAbsent

\* a call through HandleMessage and one through CallWithMessage itself have
\* both run a function that returned a channel
C28_Witness ==
  /\ \E t \in Threads :
       /\ Unserialisable(t) /\ op[t].kind = "HandleMessage"
       /\ calls[t] = 1 /\ Reply(t).Error.Code = ErrCodeExecution
  /\ \E t \in Threads :
       /\ Unserialisable(t) /\ op[t].kind = "CallWithMessage"
       /\ calls[t] = 1 /\ Reply(t).Error.Code = ErrCodeExecution

(***************************************************************************)
(* Claims about the timestamp.                                             *)
(***************************************************************************)
\* the timestamps a text is given in turn: none, the one the inputs carry,
\* another
Stamps == {0, 1600, 99}

\* the text that differs from text in its timestamp only
Restamp(text, ts) ==
  IF text.form # "object" THEN text
  ELSE Object((text.keys \ {"timestamp"})
                \cup (IF ts # 0 THEN {"timestamp"} ELSE {}),
              [text.m EXCEPT !.Timestamp = ts])

\* two return values are replies equal in id, type, result and error, or are
\* both the same value that is no reply
SameReply(r1, r2) ==
  /\ r1.kind = r2.kind
  /\ r1.text.form = r2.text.form
  /\ IF r1.text.form = "object"
       THEN LET m1 == FromJSON(r1.text).msg
                m2 == FromJSON(r2.text).msg
            IN /\ m1.ID = m2.ID /\ m1.Type = m2.Type
               /\ m1.Result = m2.Result /\ m1.Error = m2.Error
       ELSE r1 = r2

\* the first step of t's operation stands where e stands: the same function
\* found, the same decoded arguments, the same channel, the same reply
SameDispatch(t, e) ==
  /\ pc'[t] = e.pc
  /\ bound'[t] = e.bound
  /\ args'[t] = e.args
  /\ out'[t] = e.out
  /\ ch'[t] = e.ch
  /\ SameReply(ret'[t], e.ret)

HandedOut(t) ==
  DOMAIN chans
    \cup {ret[u].names[1] : u \in {v \in Threads \ {t} :
                                      op[v].kind = "generateMsgID" /\ Finished(v)}}
    \cup (IF op[t].kind = "generateMsgID" /\ ret[t].kind = "string"
            THEN {ret[t].names[1]} ELSE {})

\* C30: the counter never goes down, every generateMsgID raises it and
\* returns the ID of the raised value, and that ID is none of the IDs handed
\* out before, to the same goroutine or to another.
C30_UniqueIDs ==
  [][/\ msgIDCounter' >= msgIDCounter
     /\ \A t \in Threads :
          GenerateMsgID(t)
            => /\ msgIDCounter' > msgIDCounter
               /\ ret'[t] = RetString("gomad_" \o ToString(msgIDCounter'))
               /\ ret'[t].names[1] \notin HandedOut(t)]_vars

\* the two goroutines have each got an ID, after a call was issued under a
\* third
C30_Witness ==
  /\ op["t1"].kind = "generateMsgID" /\ Finished("t1")
  /\ op["t2"].kind = "generateMsgID" /\ Finished("t2")
  /\ DOMAIN chans = {"gomad_1"}
  /\ {ret["t1"].names[1], ret["t2"].names[1]} = {"gomad_2", "gomad_3"}

(***************************************************************************)
(* Claims about argument decoding.                                         *)
(***************************************************************************)
\* the positions (1-based) of the argument array of t that do not decode into
\* the declared parameter type
BadPositions(t) ==
  {i \in 1..Len(Params(t)) :
     Unmarshal(Request(t).Args.elems[i], Params(t)[i]).err # "nil"}

\* the call of t has the declared number of arguments, and some do not decode
ArgumentUndecodable(t) ==
  /\ Found(t)
  /\ Request(t).Args.k = "array"
  /\ Len(Request(t).Args.elems) = Len(Params(t))
  /\ BadPositions(t) # {}

FirstBad(t) == CHOOSE i \in BadPositions(t) : \A j \in BadPositions(t) : i <= j

\* C26: when the argument count matches but some argument does not decode
\* into its declared parameter type, Call stops at the first such position:
\* its error names that position's index (0-based) and target type and
\* carries the decoder's error, no argument is handed on, and the function
\* is not invoked.
C26_FirstDecodeFailure ==
  \A t \in Threads :
    ArgumentUndecodable(t)
      => /\ Finished(t)
         /\ calls[t] = 0
         /\ args[t] = <<>>
         /\ out[t] = Done(CallOut(GoNil,
               NewBindingError(bound[t].Name,
                 "failed to convert argument " \o ToString(FirstBad(t) - 1)
                   \o " to " \o Params(t)[FirstBad(t)],
                 Unmarshal(Request(t).Args.elems[FirstBad(t)],
                           Params(t)[FirstBad(t)]).err)))

\* a call of a function of two int parameters whose two arguments both fail
\* to decode has failed on position 0
C26_Witness ==
  \E t \in Threads :
    /\ ArgumentUndecodable(t) /\ Finished(t)
    /\ BadPositions(t) = {1, 2}
    /\ out[t].err.Reason = "failed to convert argument 0 to int"

(***************************************************************************)
(* Claims about the wire format.                                           *)
(***************************************************************************)
\* a and b agree in id, type and the payload fields of a's type
SameForType(a, b) ==
  /\ a.ID = b.ID
  /\ a.Type = b.Type
  /\ a.Type = MessageTypeCall => a.Method = b.Method /\ a.Args = b.Args
  /\ a.Type = MessageTypeResult => a.Result = b.Result
  /\ a.Type = MessageTypeError =>
       /\ a.Error.set = b.Error.set
       /\ a.Error.Code = b.Error.Code
       /\ a.Error.Message = b.Error.Message
       /\ a.Error.Details = b.Error.Details
  /\ a.Type = MessageTypeEvent => a.Event = b.Event /\ a.Data = b.Data

\* every string field of m is valid UTF-8
ValidStrings(m) ==
  InvalidUTF8 \notin {m.ID, m.Method, m.Event, m.Error.Message, m.Error.Details}

\* C20 as stated: for every message m built by NewCallMessage,
\* NewResultMessage, NewErrorMessage or NewEventMessage, FromJSON(ToJSON(m))
\* succeeds and yields a message equal to m in id, type and the payload
\* fields of m's type.
C20_RoundTrip ==
  wire.made = "message"
    => /\ wire.back.err = "nil"
       /\ SameForType(wire.m, wire.back.msg)

\* C20, amended: the round trip succeeds and yields a message equal to m in
\* id, type and the payload fields of m's type for every built message m
\* whose string fields (id, method, event, error message, error details) are
\* valid UTF-8.
C20_RoundTripValidUTF8 ==
  (wire.made = "message" /\ ValidStrings(wire.m))
    => /\ wire.back.err = "nil"
       /\ SameForType(wire.m, wire.back.msg)

\* a call message built from nil args, whose Args is the literal null, has
\* come back from the round trip as it was built
C20_Witness ==
  /\ wire.made = "message"
  /\ wire.m.Type = MessageTypeCall
  /\ wire.m.ID = "gomad_1" /\ wire.m.Method = "f"
  /\ wire.m.Args = ArgsNull
  /\ wire.back.err = "nil"
  /\ SameForType(wire.m, wire.back.msg)

====
